---- MODULE Spec2Model ----
(***************************************************************************)
(* OpenLinks activity feeds: the eight Netlify function handlers (GitHub   *)
(* user, GitHub org, Reddit, Substack, YouTube, TikTok, Instagram,         *)
(* Discord), each with its process-wide in-memory cache.                   *)
(*                                                                         *)
(* A request runs in two atomic pieces, as the single-threaded runtime     *)
(* executes them: Arrive is the handler from its first line to its first   *)
(* await (validation, cache lookup, the first upstream calls issued);      *)
(* Complete is everything after the upstream calls settled (normalise,     *)
(* cache write, Response).  Other requests and the clock run in between.   *)
(* Strings are sequences of one-character strings.  Time is Date.now() in  *)
(* milliseconds since the process started.                                 *)
(*                                                                         *)
(* The pure functions of the adapters (processEvent, truncateText) and of  *)
(* the client (getRepoUrl) are operators; `call` holds one call of such a  *)
(* function in the specifications that study them.                         *)
(***************************************************************************)
EXTENDS Integers, Sequences, FiniteSets, TLC

VARIABLES
  now,      \* Date.now()
  cache,    \* cache[p][key]: the `cache` object of handler p
  reqs,     \* reqs[r]: request r, from arrival to its Response
  log,      \* the arrivals and completions so far, in order
  call      \* one call of a pure function: its argument, then its result

vars == <<now, cache, reqs, log, call>>

(***************************************************************************)
(* Bounds of the model                                                     *)
(***************************************************************************)
MaxReq == 2        \* requests in one behaviour
MaxTicks == 4      \* clock steps in one behaviour
TickMs == 150000   \* one clock step, in milliseconds

Reqs == 1..MaxReq

Platforms ==
  {"github", "githubOrg", "reddit", "substack", "youtube", "tiktok",
   "instagram", "discord"}

(***************************************************************************)
(* Strings                                                                 *)
(***************************************************************************)
LowerChar(c) ==
  CASE c = "A" -> "a"
    [] c = "B" -> "b"
    [] c = "U" -> "u"
    [] c = "C" -> "c"
    [] c = "X" -> "x"
    [] OTHER -> c

\* String.prototype.toLowerCase
ToLowerCase(s) == [i \in DOMAIN s |-> LowerChar(s[i])]

\* String.prototype.startsWith
StartsWith(s, pre) ==
  /\ Len(s) >= Len(pre)
  /\ SubSeq(s, 1, Len(pre)) = pre

\* index of the first occurrence of pat in s, 0 when there is none
IndexOf(s, pat) ==
  LET hits == {i \in 1..(Len(s) - Len(pat) + 1) :
                 SubSeq(s, i, i + Len(pat) - 1) = pat}
  IN IF hits = {} THEN 0
     ELSE CHOOSE i \in hits : \A j \in hits : i <= j

\* s.replace(pat, '') with a string pattern: the first occurrence only
RemoveFirst(s, pat) ==
  LET i == IndexOf(s, pat)
  IN IF i = 0 THEN s
     ELSE SubSeq(s, 1, i - 1) \o SubSeq(s, i + Len(pat), Len(s))

\* s.replace(/^u\//, '')
StripUserPrefix(s) ==
  IF StartsWith(s, <<"u", "/">>) THEN SubSeq(s, 3, Len(s)) ELSE s

RECURSIVE SplitComma(_)
\* s.split(','): the pieces between commas, empty ones included
SplitComma(s) ==
  LET i == IndexOf(s, <<",">>)
  IN IF i = 0 THEN <<s>>
     ELSE <<SubSeq(s, 1, i - 1)>> \o SplitComma(SubSeq(s, i + 1, Len(s)))

\* list.filter(Boolean) on strings: drops the empty ones
FilterNonEmpty(list) == SelectSeq(list, LAMBDA x : x /= <<>>)

RECURSIVE JoinComma(_)
\* list.join(',')
JoinComma(list) ==
  IF list = <<>> THEN <<>>
  ELSE IF Len(list) = 1 THEN list[1]
  ELSE list[1] \o <<",">> \o JoinComma(Tail(list))

DotSubstackCom ==
  <<".", "s", "u", "b", "s", "t", "a", "c", "k", ".", "c", "o", "m">>

(***************************************************************************)
(* Query parameters: url.searchParams.get(name) is null or a string        *)
(***************************************************************************)
Null == [has |-> FALSE, val |-> <<>>]
Str(s) == [has |-> TRUE, val |-> s]

\* !param : null and '' are both falsy
Falsy(param) == ~param.has \/ param.val = <<>>

\* url.searchParams.get('videoIds')?.split(',').filter(Boolean) || []
ParseIds(param) ==
  IF ~param.has THEN <<>> ELSE FilterNonEmpty(SplitComma(param.val))

(***************************************************************************)
(* Upstream: what one HTTP call to a third-party endpoint can come back as *)
(***************************************************************************)
\* "ok"        2xx with the expected body
\* "s403" "s404" "s500"   a non-2xx status (res.ok is false)
\* "neterr"    fetch() rejects
\* "notjson"   2xx whose body is not JSON (an HTML error page): res.json() throws
\* "drift"     2xx JSON object without the expected top-level fields
\* "driftItem" 2xx JSON with the expected list, one element lacking its fields
Outcomes ==
  {"ok", "s403", "s404", "s500", "neterr", "notjson", "drift", "driftItem"}

NonOk == {"s403", "s404", "s500"}

\* what a profile page's extraction strategy can do: its pattern does not
\* match; it matches and JSON.parse (or a field access) throws; it parses and
\* finds no user; it yields the user
StrategyOutcomes == {"nomatch", "throws", "nouser", "user"}

\* One request's upstream world: the outcome of the profile/feed call (main),
\* of the second and third parallel or follow-up calls (aux, aux2), and what
\* each extraction strategy finds in the scraped page (page).
Scenario(main, aux, aux2, page) ==
  [main |-> main, aux |-> aux, aux2 |-> aux2, page |-> page]

NoPage == <<>>

(***************************************************************************)
(* Normalised results                                                      *)
(***************************************************************************)
\* subject: "null" | "basic" (present, fields defaulted or undefined) | "full"
\* items:   the Item sequence (ids)
\* extra:   the third part of the payload or the items' enrichment:
\*          "none" | "some"
\* notice:  whether _notice is a string
\* snap:    the upstream snapshot the payload was built from; every fetch
\*          sees its own snapshot, named by the request that fetched it
Payload(subject, items, extra, notice, snap) ==
  [subject |-> subject, items |-> items, extra |-> extra,
   notice |-> notice, snap |-> snap]

NoPayload == Payload("null", <<>>, "none", FALSE, 0)

\* the Items an upstream list holds when the call succeeds
FeedItems == << <<"1">>, <<"2">> >>

\* ---- GitHub user (github-activity.ts 107-185) ----
\* the user object, or null on !res.ok and on any exception
fetchUserInfo(o) ==
  CASE o = "ok" -> "full"
    [] o \in {"drift", "driftItem"} -> "basic"   \* res.json() as it is
    [] OTHER -> "null"

\* processEvent reads event.repo.name inside the try: an element without
\* `repo` throws, and the catch returns []
fetchEvents(o) == IF o = "ok" THEN FeedItems ELSE <<>>

\* Object.values(data.total) throws on a body without `total`
fetchContributions(o) ==
  IF o \in {"ok", "driftItem"} THEN "some" ELSE "none"

\* ---- GitHub org (github-activity.ts 370-443) ----
fetchOrgInfo(o) ==
  CASE o = "ok" -> "full"
    [] o \in {"drift", "driftItem"} -> "basic"
    [] OTHER -> "null"

fetchOrgEvents(o) == IF o = "ok" THEN FeedItems ELSE <<>>

\* repos.map reads plain fields only: an element without them maps to
\* undefined fields, a body that is no array throws
fetchOrgRepos(o) == IF o \in {"ok", "driftItem"} THEN "some" ELSE "none"

\* ---- Reddit (youtube-activity.ts 696-784) ----
\* json.data; undefined when the body has no `data`
fetchRedditUser(o) ==
  CASE o = "ok" -> "full"
    [] o = "driftItem" -> "basic"
    [] OTHER -> "null"

\* json.data.children as returned: "list"; "bad" is a list with an element
\* that has no `data`; "empty" is [] (!res.ok, or the catch)
fetchRedditActivity(o) ==
  CASE o = "ok" -> "list"
    [] o = "driftItem" -> "bad"
    [] OTHER -> "empty"

\* activities.map(processActivity): processActivity reads data.id of each
\* element and throws a TypeError when `data` is undefined
processActivityThrows(activities) == activities = "bad"

\* ---- Substack, YouTube: fetchRSS (youtube-activity.ts 123-142, 480-499) ----
\* the body text of any 2xx response, or null
fetchRSS(o) ==
  IF o \in NonOk \/ o = "neterr" THEN "null" ELSE "text"

\* parseRSS pattern-matches: a body without the expected tags gives the
\* default names and no items
parseRSSSubject(o) == IF o \in {"ok", "driftItem"} THEN "full" ELSE "basic"
parseRSSItems(o) == IF o = "ok" THEN FeedItems ELSE <<>>

\* fetchPostStats (452-477): the stats, or null
fetchPostStats(o) ==
  IF o \in NonOk \/ o \in {"neterr", "notjson"} THEN "null" ELSE "stats"

\* fetchVideoDetails / fetchChannelDetails (145-232) over the mirrors in
\* order: o is what every mirror answers; details, or null
fetchMirrors(o) ==
  IF o \in NonOk \/ o \in {"neterr", "notjson"} THEN "null" ELSE "details"

\* the number of mirrors contacted: the first one when it answers, all when
\* none does
MirrorCalls(o) == IF fetchMirrors(o) = "null" THEN 4 ELSE 1

\* ---- TikTok, Instagram (tiktok-activity.ts 103-241, 377-549) ----
\* the index of the first strategy that yields a user, 0 when none does; a
\* strategy that throws is caught and the next one is tried
FirstUser(page) ==
  LET hits == {i \in DOMAIN page : page[i] = "user"}
  IN IF hits = {} THEN 0 ELSE CHOOSE i \in hits : \A j \in hits : i <= j

\* strategies 1 (__UNIVERSAL_DATA_FOR_REHYDRATION__) and 2 (SIGI_STATE);
\* strategy 3 (the uniqueId pattern) only logs
scrapeTikTokProfile(o, page) ==
  IF o \in NonOk \/ o = "neterr" THEN "null"
  ELSE IF FirstUser(SubSeq(page, 1, 2)) > 0 THEN "full" ELSE "null"

\* strategies 1 (_sharedData), 2 (__additionalDataLoaded), 3 (script tags),
\* 4 (meta tags: counts and name only)
scrapeInstagramProfile(o, page) ==
  IF o \in NonOk \/ o = "neterr" THEN "null"
  ELSE CASE FirstUser(page) = 0 -> "null"
         [] FirstUser(page) = 4 -> "basic"
         [] OTHER -> "full"

\* fetchVideoEmbed: null on !res.ok and on any exception; a JSON body
\* without html and thumbnail_url gives empty strings
fetchVideoEmbed(o) ==
  CASE o \in {"ok", "driftItem"} -> "embed"
    [] o = "drift" -> "blank"
    [] OTHER -> "null"

\* KeepVideo without the filter
KeepVideoAll(embed) == TRUE

\* embeds.filter(v => v.cover || v.embedHtml)
KeepVideo(embed) == embed = "embed"

\* fetchPostEmbed: null on !res.ok, on an HTML body and on any exception
fetchPostEmbed(o) ==
  IF o \in NonOk \/ o \in {"neterr", "notjson"} THEN "null" ELSE "post"

\* ---- Discord (part_004 63-139) ----
\* the widget JSON as it is, or null on !res.ok and on any exception
fetchDiscordWidget(o) ==
  CASE o \in {"ok", "driftItem"} -> "widget"
    [] o = "drift" -> "nofields"     \* an object without members / channels
    [] OTHER -> "null"

\* widget.members.filter(...) throws a TypeError when members is undefined
processWidgetDataThrows(widget) == widget = "nofields"

(***************************************************************************)
(* The handlers                                                            *)
(***************************************************************************)
\* const CACHE_TTL = 5 * 60 * 1000, and 10 * 60 * 1000 for the two scrapers
CACHE_TTL(p) ==
  IF p \in {"tiktok", "instagram"} THEN 10 * 60 * 1000 ELSE 5 * 60 * 1000

\* the Cache-Control header of a success response
SuccessCacheControl(p) ==
  IF p \in {"tiktok", "instagram"} THEN "public, max-age=600"
  ELSE "public, max-age=300"

Min(a, b) == IF a <= b THEN a ELSE b

\* Validate without the channel-id format check
ValidateNoFormat(p, q) == IF Falsy(q.id) THEN "missing" ELSE "ok"

\* Validate testing the required parameter against null only, so that an
\* empty string passes
ValidateNullOnly(p, q) ==
  IF ~q.id.has THEN "missing"
  ELSE IF /\ p = "youtube"
          /\ (~StartsWith(q.id.val, <<"U", "C">>) \/ Len(q.id.val) /= 24)
       THEN "format"
  ELSE "ok"

\* the required parameter is checked first, then (YouTube) its format
Validate(p, q) ==
  IF Falsy(q.id) THEN "missing"
  ELSE IF /\ p = "youtube"
          /\ (~StartsWith(q.id.val, <<"U", "C">>) \/ Len(q.id.val) /= 24)
       THEN "format"
  ELSE "ok"

\* the key the handler reads and writes its cache under
CacheKey(p, q) ==
  CASE p = "substack" -> ToLowerCase(RemoveFirst(q.id.val, DotSubstackCom))
    [] p = "reddit" -> ToLowerCase(StripUserPrefix(q.id.val))
    [] p = "tiktok" -> q.id.val \o <<"-">> \o JoinComma(ParseIds(q.ids))
    [] p = "instagram" ->
         ToLowerCase(q.id.val) \o <<"-">> \o JoinComma(ParseIds(q.ids))
    [] OTHER -> q.id.val

\* IsFresh that never finds an entry fresh
IsFreshNever(p, key, t) == FALSE

\* IsFresh with <= in place of <
IsFreshInclusive(p, key, t) ==
  /\ key \in DOMAIN cache[p]
  /\ t - cache[p][key].timestamp <= CACHE_TTL(p)

\* cached && (now - cached.timestamp) < CACHE_TTL
IsFresh(p, key, t) ==
  /\ key \in DOMAIN cache[p]
  /\ t - cache[p][key].timestamp < CACHE_TTL(p)

\* FirstCalls of a handler that waits for a fetch already in flight
FirstCallsNone(p) == 0

\* upstream calls issued before the handler's first await
FirstCalls(p) ==
  CASE p \in {"github", "githubOrg"} -> 3
    [] p = "reddit" -> 2
    [] OTHER -> 1

Response(status, cached, error, widgetDisabled, payload, cacheControl) ==
  [status |-> status, cached |-> cached, error |-> error,
   widgetDisabled |-> widgetDisabled, payload |-> payload,
   cacheControl |-> cacheControl]

NoResponse == Response(0, "none", FALSE, FALSE, NoPayload, "none")

\* { error: '...' } with Content-Type only
ErrorResponse(status) ==
  Response(status, "none", TRUE, FALSE, NoPayload, "none")

\* { ...cached.data, cached: true }
HitResponse(p, data) ==
  Response(200, "true", FALSE, FALSE, data, SuccessCacheControl(p))

\* { ...data, cached: false }
MissResponse(p, data) ==
  Response(200, "false", FALSE, FALSE, data, SuccessCacheControl(p))

\* What the handler does once its upstream calls have settled:
\*   kind   "respond" | "throw" (an exception leaves the handler)
\*   store  whether cache[key] = { data, timestamp: now } ran
\*   calls  the upstream calls issued after the first await
Settled(kind, resp, store, calls) ==
  [kind |-> kind, resp |-> resp, store |-> store, calls |-> calls]

Thrown == Settled("throw", NoResponse, FALSE, 0)

\* SettleGitHub that returns no events without the profile
SettleGitHubNeedsUser(q, up, r) ==
  LET userInfo == fetchUserInfo(up.main)
  IN Settled("respond",
             MissResponse("github",
               Payload(userInfo,
                       IF userInfo = "null" THEN <<>> ELSE fetchEvents(up.aux),
                       fetchContributions(up.aux2), FALSE, r)),
             TRUE, 0)

SettleGitHub(q, up, r) ==
  Settled("respond",
          MissResponse("github",
            Payload(fetchUserInfo(up.main), fetchEvents(up.aux),
                    fetchContributions(up.aux2), FALSE, r)),
          TRUE, 0)

SettleGitHubOrg(q, up, r) ==
  LET orgInfo == fetchOrgInfo(up.main)
  IN IF orgInfo = "null" THEN Settled("respond", ErrorResponse(404), FALSE, 0)
     ELSE Settled("respond",
                  MissResponse("githubOrg",
                    Payload(orgInfo, fetchOrgEvents(up.aux),
                            fetchOrgRepos(up.aux2), FALSE, r)),
                  TRUE, 0)

SettleReddit(q, up, r) ==
  LET user == fetchRedditUser(up.main)
      activities == fetchRedditActivity(up.aux)
  IN IF user = "null" THEN Settled("respond", ErrorResponse(404), FALSE, 0)
     ELSE IF processActivityThrows(activities) THEN Thrown
     ELSE Settled("respond",
                  MissResponse("reddit",
                    Payload(user,
                            IF activities = "list" THEN FeedItems ELSE <<>>,
                            "none", FALSE, r)),
                  TRUE, 0)

\* SettleSubstack that writes the cache entry before it looks at the feed
SettleSubstackStoresFirst(q, up, r) ==
  LET rss == fetchRSS(up.main)
      posts == parseRSSItems(up.main)
      withStats == Min(Len(posts), 5)
  IN IF rss = "null" THEN Settled("respond", ErrorResponse(500), TRUE, 0)
     ELSE Settled("respond",
                  MissResponse("substack",
                    Payload(parseRSSSubject(up.main), posts,
                            IF withStats > 0 /\ fetchPostStats(up.aux) /= "null"
                            THEN "some" ELSE "none",
                            FALSE, r)),
                  TRUE, withStats)

SettleSubstack(q, up, r) ==
  LET rss == fetchRSS(up.main)
      posts == parseRSSItems(up.main)
      withStats == Min(Len(posts), 5)
  IN IF rss = "null" THEN Settled("respond", ErrorResponse(500), FALSE, 0)
     ELSE Settled("respond",
                  MissResponse("substack",
                    Payload(parseRSSSubject(up.main), posts,
                            IF withStats > 0 /\ fetchPostStats(up.aux) /= "null"
                            THEN "some" ELSE "none",
                            FALSE, r)),
                  TRUE, withStats)

\* SettleYouTube that gives up when no mirror has the channel details
SettleYouTubeNeedsDetails(q, up, r) ==
  LET rss == fetchRSS(up.main)
      videos == parseRSSItems(up.main)
      enriched == Min(Len(videos), 4)
      channelDetails == fetchMirrors(up.aux)
  IN IF rss = "null" \/ channelDetails = "null"
     THEN Settled("respond", ErrorResponse(500), FALSE, 0)
     ELSE Settled("respond",
                  MissResponse("youtube",
                    Payload("full", videos,
                            IF enriched > 0 /\ fetchMirrors(up.aux2) /= "null"
                            THEN "some" ELSE "none",
                            FALSE, r)),
                  TRUE, MirrorCalls(up.aux) + enriched * MirrorCalls(up.aux2))

SettleYouTube(q, up, r) ==
  LET rss == fetchRSS(up.main)
      videos == parseRSSItems(up.main)
      enriched == Min(Len(videos), 4)
      channelDetails == fetchMirrors(up.aux)
  IN IF rss = "null" THEN Settled("respond", ErrorResponse(500), FALSE, 0)
     ELSE Settled("respond",
                  MissResponse("youtube",
                    Payload(IF channelDetails = "null" THEN "basic" ELSE "full",
                            videos,
                            IF enriched > 0 /\ fetchMirrors(up.aux2) /= "null"
                            THEN "some" ELSE "none",
                            FALSE, r)),
                  TRUE, MirrorCalls(up.aux) + enriched * MirrorCalls(up.aux2))

\* SettleTikTok that never sets _notice
SettleTikTokNoNotice(q, up, r) ==
  LET rawUser == scrapeTikTokProfile(up.main, up.page)
      videoIds == ParseIds(q.ids)
      asked == SubSeq(videoIds, 1, Min(Len(videoIds), 3))
      videos == IF KeepVideo(fetchVideoEmbed(up.aux)) THEN asked ELSE <<>>
  IN Settled("respond",
             MissResponse("tiktok",
               Payload(rawUser, videos, "none", FALSE, r)),
             TRUE, Len(asked))

SettleTikTok(q, up, r) ==
  LET rawUser == scrapeTikTokProfile(up.main, up.page)
      videoIds == ParseIds(q.ids)
      asked == SubSeq(videoIds, 1, Min(Len(videoIds), 3))
      videos == IF KeepVideo(fetchVideoEmbed(up.aux)) THEN asked ELSE <<>>
  IN Settled("respond",
             MissResponse("tiktok",
               Payload(rawUser, videos, "none", rawUser = "null", r)),
             TRUE, Len(asked))

SettleInstagram(q, up, r) ==
  LET user == scrapeInstagramProfile(up.main, up.page)
      postIds == ParseIds(q.ids)
      asked == SubSeq(postIds, 1, Min(Len(postIds), 6))
      posts == IF fetchPostEmbed(up.aux) /= "null" THEN asked ELSE <<>>
  IN Settled("respond",
             MissResponse("instagram",
               Payload(user, posts, "none", user = "null", r)),
             TRUE, Len(asked))

\* { error, widgetDisabled: true }, 503, Cache-Control: public, max-age=60
WidgetDisabledResponse ==
  Response(503, "none", TRUE, TRUE, NoPayload, "public, max-age=60")

SettleDiscord(q, up, r) ==
  LET widgetData == fetchDiscordWidget(up.main)
  IN IF widgetData = "null"
     THEN Settled("respond", WidgetDisabledResponse, FALSE, 0)
     ELSE IF processWidgetDataThrows(widgetData) THEN Thrown
     ELSE Settled("respond",
                  MissResponse("discord",
                    Payload("full", FeedItems, "some", FALSE, r)),
                  TRUE, 0)

Settle(p, q, up, r) ==
  CASE p = "github" -> SettleGitHub(q, up, r)
    [] p = "githubOrg" -> SettleGitHubOrg(q, up, r)
    [] p = "reddit" -> SettleReddit(q, up, r)
    [] p = "substack" -> SettleSubstack(q, up, r)
    [] p = "youtube" -> SettleYouTube(q, up, r)
    [] p = "tiktok" -> SettleTikTok(q, up, r)
    [] p = "instagram" -> SettleInstagram(q, up, r)
    [] p = "discord" -> SettleDiscord(q, up, r)

(***************************************************************************)
(* Requests and upstream scenarios the model draws from                    *)
(***************************************************************************)
Al == <<"a", "l">>
AlUpper == <<"A", "l">>
Bo == <<"b", "o">>

\* a well-formed channel id: UC and 22 more characters
ChannelA == <<"U", "C">> \o [i \in 1..22 |-> "a"]
ChannelB == <<"U", "C">> \o [i \in 1..22 |-> "b"]
\* 23 characters; and 24 that do not start with UC
ChannelShort == <<"U", "C">> \o [i \in 1..21 |-> "a"]
ChannelNoUC == <<"X", "C">> \o [i \in 1..22 |-> "a"]

Query(id, ids) == [id |-> id, ids |-> ids]

\* "7,,8": two identifiers and an empty piece
TwoIds == <<"7", ",", ",", "8">>

\* the requests of Spec: two per handler, with one cache key (Reddit,
\* Substack and Instagram normalise the name) or two
ValidQueries(p) ==
  CASE p = "reddit" ->
         {Query(Str(Al), Null), Query(Str(<<"u", "/">> \o AlUpper), Null)}
    [] p = "substack" ->
         {Query(Str(Al), Null), Query(Str(AlUpper \o DotSubstackCom), Null)}
    [] p = "youtube" ->
         {Query(Str(ChannelA), Null), Query(Str(ChannelB), Null)}
    [] p = "tiktok" -> {Query(Str(Al), Null), Query(Str(Al), Str(TwoIds))}
    [] p = "instagram" -> {Query(Str(Al), Null), Query(Str(AlUpper), Null)}
    [] OTHER -> {Query(Str(Al), Null), Query(Str(Bo), Null)}

\* further well-formed requests, for the specifications without a clock
MoreValidQueries(p) ==
  CASE p \in {"reddit", "substack"} -> {Query(Str(Bo), Null)}
    [] p = "tiktok" -> {Query(Str(AlUpper), Null)}
    [] p = "instagram" -> {Query(Str(Al), Str(TwoIds))}
    [] OTHER -> {}

\* a missing or empty required parameter, a malformed channel id
InvalidQueries(p) ==
  {Query(Null, Null), Query(Str(<<>>), Null)}
    \cup (IF p = "youtube"
          THEN {Query(Str(ChannelShort), Null), Query(Str(ChannelNoUC), Null)}
          ELSE {})
    \cup (IF p \in {"tiktok", "instagram"}
          THEN {Query(Null, Str(TwoIds))} ELSE {})

Queries(p) == ValidQueries(p) \cup MoreValidQueries(p) \cup InvalidQueries(p)

\* the page of a scraped profile: one outcome per extraction strategy
Pages(p) ==
  CASE p = "tiktok" -> [1..2 -> StrategyOutcomes]
    [] p = "instagram" -> [1..4 -> StrategyOutcomes]
    [] OTHER -> {NoPage}

\* Spec: every call answers and the first strategy yields the user, or the
\* profile/feed call is refused
Scenarios(p) ==
  CASE p = "tiktok" ->
         {Scenario("ok", "ok", "ok", <<"user", "nomatch">>),
          Scenario("s403", "ok", "ok", <<"nomatch", "nomatch">>)}
    [] p = "instagram" ->
         {Scenario("ok", "ok", "ok", <<"user", "nomatch", "nomatch", "nomatch">>),
          Scenario("s403", "ok", "ok",
                   <<"nomatch", "nomatch", "nomatch", "nomatch">>)}
    [] OTHER -> {Scenario(m, "ok", "ok", NoPage) : m \in {"ok", "s403"}}

\* SpecUpstream: every outcome of every call the handler makes, every page
AllScenarios(p) ==
  CASE p \in {"github", "githubOrg", "youtube"} ->
         {Scenario(m, a, a2, NoPage) :
            m \in Outcomes, a \in Outcomes, a2 \in Outcomes}
    [] p \in {"reddit", "substack"} ->
         {Scenario(m, a, "ok", NoPage) : m \in Outcomes, a \in Outcomes}
    [] p \in {"tiktok", "instagram"} ->
         {Scenario(m, a, "ok", pg) :
            m \in Outcomes, a \in Outcomes, pg \in Pages(p)}
    [] OTHER -> {Scenario(m, "ok", "ok", NoPage) : m \in Outcomes}

(***************************************************************************)
(* State                                                                   *)
(***************************************************************************)
NoScenario == Scenario("none", "none", "none", NoPage)

\* pc: "new" (not arrived) | "fetching" (awaiting upstream) | "done" (a
\* Response was returned) | "threw" (an exception left the handler)
\* now: the handler's `const now = Date.now()`
\* calls: upstream calls issued so far;  found: the cache entry read at
\* arrival, as a set;  up: the scenario the upstream calls settled with
NewRequest ==
  [pc |-> "new", platform |-> "none", query |-> Query(Null, Null),
   key |-> <<>>, now |-> 0, calls |-> 0, found |-> {},
   up |-> NoScenario, resp |-> NoResponse]

\* no pure function is under study
NoCall == [fn |-> "none", stage |-> "none"]

Init ==
  /\ now = 0
  /\ cache = [p \in Platforms |-> <<>>]
  /\ reqs = [r \in Reqs |-> NewRequest]
  /\ log = <<>>
  /\ call = NoCall

Arrived == {r \in Reqs : reqs[r].pc /= "new"}

\* Put that keeps the entry a key already has
PutKeepFirst(c, key, value) ==
  IF key \in DOMAIN c THEN c
  ELSE [k \in DOMAIN c \cup {key} |-> IF k = key THEN value ELSE c[k]]

\* Put that replaces the whole cache object by the one entry
PutAlone(c, key, value) == [k \in {key} |-> value]

\* Put that stores nothing
PutNothing(c, key, value) == c

\* cache[key] = value
Put(c, key, value) ==
  [k \in DOMAIN c \cup {key} |-> IF k = key THEN value ELSE c[k]]

\* The handler from its first line to its first await
Invoke(r, p, q) ==
  /\ reqs[r].pc = "new"
  /\ \A r0 \in Reqs : r0 < r => reqs[r0].pc /= "new"
  /\ LET key == IF Validate(p, q) = "ok" THEN CacheKey(p, q) ELSE <<>>
         base == [NewRequest EXCEPT !.platform = p, !.query = q, !.key = key,
                                    !.now = now]
     IN reqs' = [reqs EXCEPT ![r] =
          IF Validate(p, q) /= "ok"
          THEN [base EXCEPT !.pc = "done", !.resp = ErrorResponse(400)]
          ELSE IF IsFresh(p, key, now)
          THEN [base EXCEPT !.pc = "done", !.found = {cache[p][key]},
                            !.resp = HitResponse(p, cache[p][key].data)]
          ELSE [base EXCEPT !.pc = "fetching",
                            !.found = IF key \in DOMAIN cache[p]
                                      THEN {cache[p][key]} ELSE {},
                            !.calls = FirstCalls(p)]]
  /\ log' = Append(log, <<"arrive", r>>)
  /\ UNCHANGED <<now, cache, call>>

\* a request to the handler the earlier requests of the behaviour went to
Arrive(r, p, q) ==
  /\ \A r0 \in Arrived : reqs[r0].platform = p
  /\ Invoke(r, p, q)

\* The handler after its upstream calls settled, to its Response
Complete(r, up) ==
  /\ reqs[r].pc = "fetching"
  /\ LET p == reqs[r].platform
         s == Settle(p, reqs[r].query, up, r)
     IN /\ reqs' = [reqs EXCEPT ![r] =
              [@ EXCEPT !.pc = IF s.kind = "throw" THEN "threw" ELSE "done",
                        !.up = up,
                        !.calls = @ + s.calls,
                        !.resp = s.resp]]
        /\ cache' = IF s.store
                    THEN [cache EXCEPT ![p] =
                           Put(@, reqs[r].key,
                               [data |-> s.resp.payload,
                                timestamp |-> reqs[r].now])]
                    ELSE cache
  /\ log' = Append(log, <<"done", r>>)
  /\ UNCHANGED <<now, call>>

\* the clock advances
Tick ==
  /\ now + TickMs <= MaxTicks * TickMs
  /\ now' = now + TickMs
  /\ UNCHANGED <<cache, reqs, log, call>>

Next ==
  \/ \E r \in Reqs, p \in Platforms :
       \E q \in ValidQueries(p) : Arrive(r, p, q)
  \/ \E r \in Reqs :
       /\ reqs[r].pc = "fetching"
       /\ \E up \in Scenarios(reqs[r].platform) : Complete(r, up)
  \/ Tick

Spec == Init /\ [][Next]_vars

\* the handlers SpecMixed sends requests to, with TTLs of 5 and 10 minutes
MixedPlatforms == {"github", "tiktok"}

\* requests to several handlers, each with its own cache
NextMixed ==
  \/ \E r \in Reqs, p \in MixedPlatforms :
       \E q \in ValidQueries(p) : Invoke(r, p, q)
  \/ \E r \in Reqs :
       /\ reqs[r].pc = "fetching"
       /\ \E up \in Scenarios(reqs[r].platform) : Complete(r, up)
  \/ Tick

SpecMixed == Init /\ [][NextMixed]_vars

\* every request, well-formed or not, at one instant
NextInput ==
  \/ \E r \in Reqs, p \in Platforms : \E q \in Queries(p) : Arrive(r, p, q)
  \/ \E r \in Reqs :
       /\ reqs[r].pc = "fetching"
       /\ \E up \in Scenarios(reqs[r].platform) : Complete(r, up)

SpecInput == Init /\ [][NextInput]_vars

\* one request, every upstream scenario
NextUpstream ==
  \/ \E p \in Platforms : \E q \in Queries(p) : Arrive(1, p, q)
  \/ /\ reqs[1].pc = "fetching"
     /\ \E up \in AllScenarios(reqs[1].platform) : Complete(1, up)

SpecUpstream == Init /\ [][NextUpstream]_vars

(***************************************************************************)
(* History                                                                 *)
(***************************************************************************)
\* where <<ev, r>> stands in the log; 0 when it has not happened
Pos(ev, r) ==
  LET hits == {i \in DOMAIN log : log[i] = <<ev, r>>}
  IN IF hits = {} THEN 0 ELSE CHOOSE i \in hits : TRUE

Responded(r) == reqs[r].pc = "done"

SameParams(r1, r2) ==
  /\ reqs[r1].platform = reqs[r2].platform
  /\ reqs[r1].query = reqs[r2].query

SameKey(r1, r2) ==
  /\ reqs[r1].platform = reqs[r2].platform
  /\ reqs[r1].key = reqs[r2].key

\* r2 arrived after r1 was answered, and no other request for the key was
\* answered in between
Consecutive(r1, r2) ==
  /\ r1 /= r2
  /\ Pos("done", r1) > 0
  /\ Pos("arrive", r2) > Pos("done", r1)
  /\ \A r3 \in Reqs \ {r1, r2} :
       ~ /\ SameKey(r1, r3)
         /\ Pos("done", r1) < Pos("done", r3)
         /\ Pos("done", r3) < Pos("arrive", r2)

\* r1, a request that was not itself served from the cache, then r2 with
\* the same parameters less than one TTL later
MissThenRepeat(r1, r2) ==
  /\ Responded(r1) /\ Responded(r2)
  /\ SameParams(r1, r2)
  /\ Consecutive(r1, r2)
  /\ reqs[r1].resp.cached /= "true"
  /\ reqs[r2].now - reqs[r1].now < CACHE_TTL(reqs[r1].platform)

Arriving(r) == reqs[r].pc = "new" /\ reqs'[r].pc /= "new"
Completing(r) == reqs[r].pc = "fetching" /\ reqs'[r].pc /= "fetching"

\* this step returns r's Response
Answering(r) == reqs[r].pc /= "done" /\ reqs'[r].pc = "done"

\* the entry under r's key, after this step, is r's payload stamped with
\* r's arrival time
StoredByThisStep(r) ==
  LET p == reqs'[r].platform
      key == reqs'[r].key
  IN /\ key \in DOMAIN cache'[p]
     /\ cache'[p][key] =
          [data |-> reqs'[r].resp.payload, timestamp |-> reqs'[r].now]

(***************************************************************************)
(* C2                                                                      *)
(***************************************************************************)
\* r arrives for a key that has an entry: served from the cache iff
\* t - s < TTL, and otherwise the adapter is invoked
C2_AtArrival(r) ==
  LET p == reqs'[r].platform
      key == reqs'[r].key
      t == reqs'[r].now
  IN Arriving(r) /\ reqs'[r].resp.status /= 400 /\ key \in DOMAIN cache[p] =>
       LET s == cache[p][key].timestamp
       IN /\ t = now
          /\ (Answering(r) /\ reqs'[r].resp.cached = "true")
               <=> (t - s < CACHE_TTL(p))
          /\ t - s >= CACHE_TTL(p) =>
               reqs'[r].pc = "fetching" /\ reqs'[r].calls >= 1

\* r found an expired entry and its upstream calls have settled
RefetchSettles(r) ==
  /\ Completing(r)
  /\ \E e \in reqs[r].found :
       reqs[r].now - e.timestamp >= CACHE_TTL(reqs[r].platform)

\* C2 as stated: a request at time t for a key with an entry of timestamp s
\* is served from the cache iff t - s < TTL; when t - s >= TTL the handler
\* re-invokes the adapter, returns cached:false, and on success replaces
\* the entry with one of timestamp t.
C2_Original ==
  [][\A r \in Reqs :
       /\ C2_AtArrival(r)
       /\ RefetchSettles(r) =>
            /\ Answering(r)
            /\ reqs'[r].resp.cached = "false"
            /\ reqs'[r].resp.status = 200 => StoredByThisStep(r)]_vars

\* C2, amended: served from the cache iff t - s < TTL; when t - s >= TTL
\* the handler re-invokes the adapter and does not answer cached:true; a
\* success response is tagged cached:false and the entry is replaced by
\* the new payload with timestamp t; any other outcome carries no cached
\* flag and leaves the cache as it was.
C2_FreshnessAndReplacement ==
  [][\A r \in Reqs :
       /\ C2_AtArrival(r)
       /\ RefetchSettles(r) =>
            /\ reqs'[r].resp.cached /= "true"
            /\ reqs'[r].resp.status = 200 =>
                 /\ reqs'[r].resp.cached = "false"
                 /\ StoredByThisStep(r)
            /\ reqs'[r].resp.status /= 200 =>
                 /\ reqs'[r].resp.cached = "none"
                 /\ cache' = cache]_vars

\* an entry exactly one TTL old was found, refetched and replaced
C2_Witness ==
  \E r \in Reqs :
    /\ Responded(r)
    /\ \E e \in reqs[r].found :
         reqs[r].now - e.timestamp = CACHE_TTL(reqs[r].platform)
    /\ reqs[r].resp.status = 200
    /\ reqs[r].resp.cached = "false"
    /\ reqs[r].calls >= 1
    /\ cache[reqs[r].platform][reqs[r].key].timestamp = reqs[r].now

(***************************************************************************)
(* C3                                                                      *)
(***************************************************************************)
\* C3: a response with cached:true is produced without any upstream call
\* and without modifying the cache; a success response with cached:false
\* is produced only after at least one upstream call of the same request,
\* and its payload is what is stored under the key, with the request's
\* arrival time as timestamp.
C3_HitAndMissEffects ==
  [][\A r \in Reqs :
       /\ Answering(r) /\ reqs'[r].resp.cached = "true" =>
            /\ reqs'[r].calls = 0
            /\ cache' = cache
       /\ Answering(r) /\ reqs'[r].resp.cached = "false"
                       /\ reqs'[r].resp.status = 200 =>
            /\ reqs[r].calls >= 1
            /\ StoredByThisStep(r)
            /\ reqs'[r].now = reqs[r].now]_vars

\* one request answered from upstream whose payload is the stored entry,
\* and a later one answered from the cache without a call
C3_Witness ==
  \E r1, r2 \in Reqs :
    /\ Responded(r1) /\ Responded(r2)
    /\ SameKey(r1, r2)
    /\ reqs[r1].resp.status = 200 /\ reqs[r1].resp.cached = "false"
    /\ reqs[r1].calls >= 1
    /\ cache[reqs[r1].platform][reqs[r1].key] =
         [data |-> reqs[r1].resp.payload, timestamp |-> reqs[r1].now]
    /\ reqs[r2].resp.cached = "true" /\ reqs[r2].calls = 0

(***************************************************************************)
(* C4                                                                      *)
(***************************************************************************)
\* a channelId that is present but does not start with UC or is not 24
\* characters long
MalformedChannelId(q) ==
  /\ q.id.has /\ q.id.val /= <<>>
  /\ \/ Len(q.id.val) /= 24
     \/ Len(q.id.val) < 2
     \/ SubSeq(q.id.val, 1, 2) /= <<"U", "C">>

\* C4: a YouTube request whose channelId does not start with UC or whose
\* length is not 24 is answered 400 before any upstream call and leaves
\* the cache unchanged, whatever the cache holds for other channels.
C4_MalformedChannelRejected ==
  [][\A r \in Reqs :
       /\ Arriving(r)
       /\ reqs'[r].platform = "youtube"
       /\ MalformedChannelId(reqs'[r].query)
       => /\ Answering(r)
          /\ reqs'[r].resp.status = 400
          /\ reqs'[r].resp.error
          /\ reqs'[r].calls = 0
          /\ cache' = cache]_vars

\* a malformed channel id was answered 400 while the cache holds a fresh
\* entry for a well-formed channel
C4_Witness ==
  \E r \in Reqs :
    /\ Responded(r)
    /\ reqs[r].platform = "youtube"
    /\ MalformedChannelId(reqs[r].query)
    /\ reqs[r].resp.status = 400
    /\ reqs[r].calls = 0
    /\ \E key \in DOMAIN cache["youtube"] :
         /\ key /= reqs[r].query.id.val
         /\ reqs[r].now - cache["youtube"][key].timestamp < CACHE_TTL("youtube")

(***************************************************************************)
(* C5                                                                      *)
(***************************************************************************)
\* the required parameter (username, org, channelId, publication,
\* serverId) is absent or the empty string
RequiredParamMissing(q) == ~q.id.has \/ q.id.val = <<>>

\* C5: in each of the eight handlers a request whose required parameter is
\* missing or empty is answered 400 with a JSON body that has an error
\* field, without an upstream call and with the cache unchanged.
C5_MissingParamRejected ==
  [][\A r \in Reqs :
       Arriving(r) /\ RequiredParamMissing(reqs'[r].query)
       => /\ reqs'[r].platform \in Platforms
          /\ Answering(r)
          /\ reqs'[r].resp.status = 400
          /\ reqs'[r].resp.error
          /\ reqs'[r].calls = 0
          /\ cache' = cache]_vars

\* an empty required parameter was answered 400 after an earlier request
\* of the same handler had filled the cache
C5_Witness ==
  \E r \in Reqs :
    /\ Responded(r)
    /\ reqs[r].query.id = Str(<<>>)
    /\ reqs[r].resp.status = 400
    /\ reqs[r].resp.error
    /\ reqs[r].calls = 0
    /\ cache[reqs[r].platform] /= <<>>

(***************************************************************************)
(* C6                                                                      *)
(***************************************************************************)
\* the seconds of Cache-Control: public, max-age=60 on the 503, in ms
WidgetDisabledMaxAge == 60 * 1000

\* r1 was refused by the widget endpoint (403) and answered 503 with
\* widgetDisabled:true; r2 asks for the same server less than max-age later
ProbeAfterDisabled(r1, r2) ==
  /\ reqs[r1].platform = "discord"
  /\ Responded(r1)
  /\ reqs[r1].up.main = "s403"
  /\ reqs[r1].resp.status = 503
  /\ reqs[r1].resp.widgetDisabled
  /\ reqs[r2].pc /= "new"
  /\ SameKey(r1, r2)
  /\ Consecutive(r1, r2)
  /\ reqs[r2].now - reqs[r1].now < WidgetDisabledMaxAge

\* C6 as stated: a 403 from the widget endpoint yields 503 with
\* widgetDisabled:true, and the condition is cached: a further request
\* within the window does not call the widget endpoint again.
C6_Original ==
  /\ \A r \in Reqs :
       reqs[r].platform = "discord" /\ Responded(r) /\ reqs[r].up.main = "s403"
       => reqs[r].resp.status = 503 /\ reqs[r].resp.widgetDisabled
  /\ \A r1, r2 \in Reqs : ProbeAfterDisabled(r1, r2) => reqs[r2].calls = 0

(***************************************************************************)
(* C7                                                                      *)
(***************************************************************************)
\* C7: the Discord handler reports widgetDisabled:true only when the widget
\* endpoint answered 403 or 404; a network error or another non-2xx status
\* gives a different outcome.
C7_DisabledOnlyWhenConfirmed ==
  \A r \in Reqs :
    /\ reqs[r].platform = "discord"
    /\ Responded(r)
    /\ reqs[r].resp.widgetDisabled
    => reqs[r].up.main \in {"s403", "s404"}

(***************************************************************************)
(* C8                                                                      *)
(***************************************************************************)
\* the strategies scrapeTikTokProfile / scrapeInstagramProfile run on the
\* fetched page
Strategies(p) == IF p = "tiktok" THEN 1..2 ELSE 1..4

\* the profile page could not be fetched (a non-2xx status or a network
\* error), or no strategy yielded a user
ProfileFailed(r) ==
  \/ reqs[r].up.main \in {"s403", "s404", "s500", "neterr"}
  \/ \A i \in Strategies(reqs[r].platform) : reqs[r].up.page[i] /= "user"

\* C8: when the TikTok or Instagram profile fetch fails or every extraction
\* strategy fails, the handler answers 200 with user null and a _notice;
\* _notice is absent exactly when user is not null.
C8_NoticeIffNoUser ==
  \A r \in Reqs :
    /\ reqs[r].platform \in {"tiktok", "instagram"}
    /\ Responded(r)
    /\ reqs[r].resp.status /= 400
    => /\ reqs[r].resp.status = 200
       /\ ProfileFailed(r) =>
            /\ reqs[r].resp.payload.subject = "null"
            /\ reqs[r].resp.payload.notice
       /\ ~reqs[r].resp.payload.notice
            <=> reqs[r].resp.payload.subject /= "null"

\* the page was fetched, one strategy threw and the other found no user
C8_Witness ==
  \E r \in Reqs :
    /\ reqs[r].platform = "tiktok"
    /\ Responded(r)
    /\ reqs[r].up.main = "ok"
    /\ reqs[r].up.page = <<"throws", "nouser">>
    /\ reqs[r].resp.status = 200
    /\ reqs[r].resp.payload.subject = "null"
    /\ reqs[r].resp.payload.notice

(***************************************************************************)
(* C9                                                                      *)
(***************************************************************************)
\* some upstream call of the request failed or answered in another shape
UpstreamFailed(r) ==
  \/ reqs[r].up.main /= "ok"
  \/ reqs[r].up.aux /= "ok"
  \/ reqs[r].up.aux2 /= "ok"

\* C9: when an upstream call fails the handler never answers 5xx; it
\* returns a success response with an empty or partial result.  The one
\* exception is the Discord 503 with widgetDisabled:true.
C9_NoServerErrorOnUpstreamFailure ==
  \A r \in Reqs :
    Responded(r) /\ UpstreamFailed(r) =>
      \/ reqs[r].resp.status < 500
      \/ /\ reqs[r].platform = "discord"
         /\ reqs[r].resp.status = 503
         /\ reqs[r].resp.widgetDisabled

(***************************************************************************)
(* C10                                                                     *)
(***************************************************************************)
\* C10: whatever the upstream calls return (network error, non-2xx, a body
\* that is not JSON, JSON without members, channels, data or
\* data.children[i].data), every handler returns a Response and no
\* exception leaves it.
C10_NoUnhandledException ==
  \A r \in Reqs :
    /\ reqs[r].pc /= "threw"
    /\ reqs[r].up /= NoScenario => Responded(r)

(***************************************************************************)
(* C11                                                                     *)
(***************************************************************************)
\* C11: a handler answers 404 only when the upstream confirmed that the
\* entity does not exist (its profile call answered 404); a network error
\* or another non-2xx status on the profile call of the Reddit and
\* GitHub-org handlers does not produce a 404.
C11_NotFoundOnlyWhenConfirmed ==
  \A r \in Reqs :
    Responded(r) /\ reqs[r].resp.status = 404 => reqs[r].up.main = "s404"

(***************************************************************************)
(* C12                                                                     *)
(***************************************************************************)
\* r1 missed the cache and was still awaiting its upstream calls when r2
\* arrived for the same key
Overlapping(r1, r2) ==
  /\ r1 /= r2
  /\ SameKey(r1, r2)
  /\ Pos("arrive", r1) > 0
  /\ Pos("arrive", r1) < Pos("arrive", r2)
  /\ reqs[r1].pc = "fetching" \/ Pos("arrive", r2) < Pos("done", r1)

\* the entry r read at its arrival, if any, was not fresh
NoFreshEntryAtArrival(r) ==
  \A e \in reqs[r].found :
    reqs[r].now - e.timestamp >= CACHE_TTL(reqs[r].platform)

\* C12 as stated: there is no single-flight: when two requests for the same
\* key arrive while no fresh entry exists, the second before the first has
\* written the cache, each issues its own upstream fetches and each
\* returns cached:false.
C12_Original ==
  \A r1, r2 \in Reqs :
    Overlapping(r1, r2) /\ NoFreshEntryAtArrival(r2) =>
      \A r \in {r1, r2} :
        /\ reqs[r].calls >= 1
        /\ Responded(r) => reqs[r].resp.cached = "false"

\* C12, amended: in that situation each request issues its own upstream
\* fetches and neither is served from the cache; each response that is a
\* success response is tagged cached:false (an error response carries no
\* cached flag).
C12_NoSingleFlight ==
  \A r1, r2 \in Reqs :
    Overlapping(r1, r2) /\ NoFreshEntryAtArrival(r2) =>
      \A r \in {r1, r2} :
        /\ reqs[r].calls >= 1
        /\ Responded(r) =>
             /\ reqs[r].resp.cached /= "true"
             /\ reqs[r].resp.status = 200 => reqs[r].resp.cached = "false"
             /\ reqs[r].resp.status /= 200 => reqs[r].resp.cached = "none"

\* two overlapping requests for one key, each fetched and answered
\* cached:false
C12_Witness ==
  \E r1, r2 \in Reqs :
    /\ Overlapping(r1, r2)
    /\ Responded(r1) /\ Responded(r2)
    /\ reqs[r1].calls >= 1 /\ reqs[r2].calls >= 1
    /\ reqs[r1].resp.cached = "false" /\ reqs[r2].resp.cached = "false"

(***************************************************************************)
(* C13                                                                     *)
(***************************************************************************)
\* r fetched and wrote cache[key] = { data, timestamp: now }
Wrote(r) ==
  /\ Pos("done", r) > 0
  /\ Responded(r)
  /\ reqs[r].resp.status = 200

\* the pair r wrote
EntryOf(r) == [data |-> reqs[r].resp.payload, timestamp |-> reqs[r].now]

Writers(p, key) ==
  {r \in Reqs : reqs[r].platform = p /\ reqs[r].key = key /\ Wrote(r)}

\* C13: cache writes are last-writer-wins full-entry replacements: the
\* entry of a key is exactly the {payload, timestamp} pair written by the
\* request whose write happened last; no entry combines the payload of one
\* request with the timestamp of another, and a cache hit reads a payload
\* and timestamp written by one request.
C13_LastWriterWins ==
  /\ \A p \in Platforms : \A key \in DOMAIN cache[p] :
       /\ Writers(p, key) /= {}
       /\ \E w \in Writers(p, key) :
            /\ \A w2 \in Writers(p, key) : Pos("done", w2) <= Pos("done", w)
            /\ cache[p][key] = EntryOf(w)
  /\ \A r \in Reqs :
       Responded(r) /\ reqs[r].resp.cached = "true" =>
         \E w \in Writers(reqs[r].platform, reqs[r].key) :
           /\ reqs[r].found = {EntryOf(w)}
           /\ reqs[r].resp.payload = reqs[w].resp.payload

\* the request that arrived first, at an earlier time, wrote last: the
\* entry carries its payload and its timestamp
C13_Witness ==
  \E r1, r2 \in Reqs :
    /\ Overlapping(r1, r2)
    /\ Wrote(r1) /\ Wrote(r2)
    /\ reqs[r1].now < reqs[r2].now
    /\ Pos("done", r2) < Pos("done", r1)
    /\ cache[reqs[r1].platform][reqs[r1].key] = EntryOf(r1)
    /\ EntryOf(r1) /= EntryOf(r2)

(***************************************************************************)
(* C14                                                                     *)
(***************************************************************************)
\* the step ends r's upstream calls, r's profile call failed, and the key
\* holds a payload whose subject was fetched
FailedFetchOverGoodEntry(r) ==
  LET p == reqs[r].platform
      key == reqs[r].key
  IN /\ Completing(r)
     /\ reqs'[r].up.main \in {"s403", "s404", "s500", "neterr"}
     /\ key \in DOMAIN cache[p]
     /\ cache[p][key].data.subject /= "null"

\* C14: an existing cache entry is overwritten only when a new fetch
\* succeeds: a request whose upstream profile fetch failed never replaces
\* an existing entry that holds a successfully fetched payload.
C14_OverwriteOnlyOnSuccess ==
  [][\A r \in Reqs :
       FailedFetchOverGoodEntry(r) =>
         cache'[reqs[r].platform][reqs[r].key]
           = cache[reqs[r].platform][reqs[r].key]]_vars

(***************************************************************************)
(* C15                                                                     *)
(***************************************************************************)
\* the step is a write of r over an entry its key already has
Overwriting(r) ==
  /\ Completing(r)
  /\ reqs[r].key \in DOMAIN cache[reqs[r].platform]
  /\ cache' /= cache

\* C15 as stated: an entry is overwritten only after its TTL has expired:
\* no write, in any interleaving of concurrent requests for the key,
\* replaces an entry that is still fresh at the moment of the write.
C15_Original ==
  [][\A r \in Reqs :
       Overwriting(r) =>
         now - cache[reqs[r].platform][reqs[r].key].timestamp
           >= CACHE_TTL(reqs[r].platform)]_vars

\* C15, amended: a request writes only if it found no fresh entry when it
\* arrived.  The entry it replaces is either the one it found, whose TTL
\* has expired, or one that a concurrent request for the key wrote after
\* the writing request had arrived, which may still be fresh.
C15_OverwriteOnlyIfStaleAtArrival ==
  [][\A r \in Reqs :
       Overwriting(r) =>
         LET old == cache[reqs[r].platform][reqs[r].key]
         IN /\ NoFreshEntryAtArrival(r)
            /\ old \in reqs[r].found =>
                 now - old.timestamp >= CACHE_TTL(reqs[r].platform)
            /\ old \notin reqs[r].found =>
                 \E w \in Reqs \ {r} :
                   /\ SameKey(w, r)
                   /\ old = EntryOf(w)
                   /\ Pos("done", w) > Pos("arrive", r)]_vars

\* of two overlapping requests the second write replaced the entry of the
\* first while that entry was fresh
C15_Witness ==
  \E r1, r2 \in Reqs :
    /\ r1 /= r2
    /\ Overlapping(r1, r2) \/ Overlapping(r2, r1)
    /\ Wrote(r1) /\ Wrote(r2)
    /\ Pos("done", r1) < Pos("done", r2)
    /\ now - reqs[r1].now < CACHE_TTL(reqs[r1].platform)
    /\ cache[reqs[r2].platform][reqs[r2].key] = EntryOf(r2)

(***************************************************************************)
(* C16                                                                     *)
(***************************************************************************)
\* C16: cache entries are never deleted and each cache is owned by one
\* adapter: a key that has an entry in a platform's cache has one in every
\* later state, and a request to platform P with key k leaves the entries
\* of every other key of P and every entry of every other platform's cache
\* unchanged.
C16_NeverDeletedAndFramed ==
  [][/\ \A p \in Platforms : DOMAIN cache[p] \subseteq DOMAIN cache'[p]
     /\ \A r \in Reqs :
          Arriving(r) \/ Completing(r) =>
            \A p \in Platforms :
              /\ DOMAIN cache'[p] \subseteq
                   DOMAIN cache[p] \cup
                     (IF p = reqs'[r].platform THEN {reqs'[r].key} ELSE {})
              /\ \A key \in DOMAIN cache[p] :
                   p /= reqs'[r].platform \/ key /= reqs'[r].key =>
                     cache'[p][key] = cache[p][key]]_vars

\* a request wrote its entry while the cache of another platform held an
\* entry written earlier, which is still there
C16_Witness ==
  \E r1, r2 \in Reqs :
    /\ Wrote(r1) /\ Wrote(r2)
    /\ Pos("done", r1) < Pos("done", r2)
    /\ reqs[r1].platform /= reqs[r2].platform
    /\ cache[reqs[r1].platform][reqs[r1].key] = EntryOf(r1)
    /\ cache[reqs[r2].platform][reqs[r2].key] = EntryOf(r2)

(***************************************************************************)
(* C17                                                                     *)
(***************************************************************************)
\* r was answered after one upstream call, which failed
OnlyCallFailed(r) ==
  /\ Pos("done", r) > 0
  /\ Responded(r)
  /\ reqs[r].calls = 1
  /\ reqs[r].up.main \in {"s403", "s404", "s500", "neterr"}

\* C17: repeated upstream failures are throttled by the cache TTL: when a
\* request for a key has just issued upstream calls that all failed, later
\* requests for the key issue no upstream call until the TTL has elapsed
\* since that request.
C17_FailuresThrottled ==
  \A r1, r2 \in Reqs :
    /\ OnlyCallFailed(r1)
    /\ Consecutive(r1, r2)
    /\ SameKey(r1, r2)
    /\ reqs[r2].pc /= "new"
    /\ reqs[r2].now - reqs[r1].now < CACHE_TTL(reqs[r1].platform)
    => reqs[r2].calls = 0

(***************************************************************************)
(* C18                                                                     *)
(***************************************************************************)
\* C18: every response of every handler (cache hit, cache miss and the
\* error responses 400, 404, 500, 503) carries a Cache-Control header of
\* the form public, max-age=N.
C18_CacheControlOnEveryResponse ==
  \A r \in Reqs :
    Responded(r) =>
      reqs[r].resp.cacheControl \in
        {"public, max-age=60", "public, max-age=300", "public, max-age=600"}

(***************************************************************************)
(* GitHub events: processEvent of the user adapter, and the repo link the  *)
(* client renders.  A literal fragment of a template string is one         *)
(* element of the sequence; interpolated values are spliced in character   *)
(* by character.  The `time` field (formatRelativeTime) is left out here.  *)
(***************************************************************************)
MaxNameLen == 3    \* characters of a repository name in the events drawn

\* the strings over alphabet of 1..n characters
Strings(alphabet, n) == UNION {[1..k -> alphabet] : k \in 1..n}

RECURSIVE SplitOn(_, _)
\* s.split(sep) for a one-character separator
SplitOn(s, sep) ==
  LET i == IndexOf(s, <<sep>>)
  IN IF i = 0 THEN <<s>>
     ELSE <<SubSeq(s, 1, i - 1)>> \o SplitOn(SubSeq(s, i + 1, Len(s)), sep)

\* event.repo.name.split('/')[1] || event.repo.name
ShortRepo(name) ==
  LET parts == SplitOn(name, "/")
  IN IF Len(parts) >= 2 /\ parts[2] /= <<>> THEN parts[2] ELSE name

\* commits?.[0]?.message?.split('\n')[0] || 'Pushed code', then .slice(0, 50)
CommitMsg(payload) ==
  LET first == IF payload.commit.has
               THEN SplitOn(payload.commit.val, "\n")[1] ELSE <<>>
      msg == IF first = <<>> THEN <<"Pushed code">> ELSE first
  IN SubSeq(msg, 1, Min(Len(msg), 50))

ProcessedEvent(type, repo, message) ==
  [type |-> type, repo |-> repo, message |-> message]

\* the `return null` of the default branch
NullEvent == ProcessedEvent("null", <<>>, <<>>)

\* processEvent that uses the short name for starred and forked repos too
processEventShortOnly(event) ==
  LET shortRepo == ShortRepo(event.name)
  IN CASE event.type = "PushEvent" ->
            ProcessedEvent("push", shortRepo,
              <<"Pushed to ">> \o shortRepo \o <<": ">>
                \o CommitMsg(event.payload))
       [] event.type = "PullRequestEvent" ->
            ProcessedEvent("pr", shortRepo,
              <<event.payload.action, " PR on ">> \o shortRepo)
       [] event.type = "IssuesEvent" ->
            ProcessedEvent("issue", shortRepo,
              <<event.payload.action, " issue on ">> \o shortRepo)
       [] event.type = "WatchEvent" ->
            ProcessedEvent("star", shortRepo, <<"Starred ">> \o shortRepo)
       [] event.type = "ForkEvent" ->
            ProcessedEvent("fork", shortRepo, <<"Forked ">> \o shortRepo)
       [] event.type = "CreateEvent" ->
            IF event.payload.refType = "repository"
            THEN ProcessedEvent("create", shortRepo,
                   <<"Created repository ">> \o shortRepo)
            ELSE ProcessedEvent("create", shortRepo,
                   <<"Created ", event.payload.refType, " ",
                     event.payload.ref, " on ">> \o shortRepo)
       [] OTHER -> NullEvent

processEvent(event) ==
  LET fullRepo == event.name
      shortRepo == ShortRepo(event.name)
  IN CASE event.type = "PushEvent" ->
            ProcessedEvent("push", shortRepo,
              <<"Pushed to ">> \o shortRepo \o <<": ">>
                \o CommitMsg(event.payload))
       [] event.type = "PullRequestEvent" ->
            ProcessedEvent("pr", shortRepo,
              <<event.payload.action, " PR on ">> \o shortRepo)
       [] event.type = "IssuesEvent" ->
            ProcessedEvent("issue", shortRepo,
              <<event.payload.action, " issue on ">> \o shortRepo)
       [] event.type = "WatchEvent" ->
            ProcessedEvent("star", fullRepo, <<"Starred ">> \o fullRepo)
       [] event.type = "ForkEvent" ->
            ProcessedEvent("fork", fullRepo, <<"Forked ">> \o fullRepo)
       [] event.type = "CreateEvent" ->
            IF event.payload.refType = "repository"
            THEN ProcessedEvent("create", shortRepo,
                   <<"Created repository ">> \o shortRepo)
            ELSE ProcessedEvent("create", shortRepo,
                   <<"Created ", event.payload.refType, " ",
                     event.payload.ref, " on ">> \o shortRepo)
       [] OTHER -> NullEvent

\* getRepoUrl of the GitHub activity component
getRepoUrl(username, repo) ==
  IF IndexOf(repo, <<"/">>) > 0
  THEN <<"https://github.com/">> \o repo
  ELSE <<"https://github.com/">> \o username \o <<"/">> \o repo

EventPayload(commit, action, refType, ref) ==
  [commit |-> commit, action |-> action, refType |-> refType, ref |-> ref]

\* the payloads drawn for an event type
EventPayloads(type) ==
  CASE type = "PushEvent" ->
         {EventPayload(Null, "none", "none", "none"),
          EventPayload(Str(<<"f", "i", "x", "\n", "x">>),
                       "none", "none", "none")}
    [] type = "CreateEvent" ->
         {EventPayload(Null, "none", "repository", "null"),
          EventPayload(Null, "none", "branch", "main")}
    [] type \in {"PullRequestEvent", "IssuesEvent"} ->
         {EventPayload(Null, "opened", "none", "none")}
    [] OTHER -> {EventPayload(Null, "none", "none", "none")}

EventTypes ==
  {"PushEvent", "PullRequestEvent", "IssuesEvent", "WatchEvent", "ForkEvent",
   "CreateEvent", "DeleteEvent"}

RepoNames == Strings({"a", "b", "/"}, MaxNameLen)

GitHubEvents ==
  UNION {{[type |-> t, name |-> n, payload |-> pl] :
            n \in RepoNames, pl \in EventPayloads(t)} : t \in EventTypes}

\* the `username` prop of the component
Usernames == {<<"a">>, <<"b">>}

InitEvents ==
  /\ now = 0
  /\ cache = [p \in Platforms |-> <<>>]
  /\ reqs = [r \in Reqs |-> NewRequest]
  /\ log = <<>>
  /\ call \in {[fn |-> "processEvent", stage |-> "input", event |-> e,
                result |-> NullEvent, username |-> <<>>, url |-> <<>>] :
                 e \in GitHubEvents}

\* fetchEvents maps processEvent over the events of the API
ProcessEventStep ==
  /\ call.fn = "processEvent" /\ call.stage = "input"
  /\ call' = [call EXCEPT !.stage = "output",
                          !.result = processEvent(call.event)]
  /\ UNCHANGED <<now, cache, reqs, log>>

\* the component renders the link of a processed event
RenderRepoLink(username) ==
  /\ call.fn = "processEvent" /\ call.stage = "output"
  /\ call.result /= NullEvent
  /\ call' = [call EXCEPT !.stage = "linked",
                          !.username = username,
                          !.url = getRepoUrl(username, call.result.repo)]
  /\ UNCHANGED <<now, cache, reqs, log>>

NextEvents ==
  \/ ProcessEventStep
  \/ \E username \in Usernames : RenderRepoLink(username)

SpecEvents == InitEvents /\ [][NextEvents]_vars

(***************************************************************************)
(* C19                                                                     *)
(***************************************************************************)
\* name is owner/repo: one slash, with something on both sides
WellFormedRepo(name) ==
  LET i == IndexOf(name, <<"/">>)
  IN /\ i > 1 /\ i < Len(name)
     /\ IndexOf(SubSeq(name, i + 1, Len(name)), <<"/">>) = 0

OwnerOf(name) == SubSeq(name, 1, IndexOf(name, <<"/">>) - 1)
RepoOf(name) == SubSeq(name, IndexOf(name, <<"/">>) + 1, Len(name))

EndsWith(s, suffix) ==
  /\ Len(s) >= Len(suffix)
  /\ SubSeq(s, Len(s) - Len(suffix) + 1, Len(s)) = suffix

EventProcessed == call.fn = "processEvent" /\ call.stage \in {"output", "linked"}

\* C19: in the GitHub user adapter a WatchEvent or ForkEvent on owner/repo
\* gives an event whose repo field and message hold the full owner/repo
\* path, never the queried user's name with the short name; push,
\* pull-request, issue and create events use only the short name after the
\* slash; the client's link for a repo containing a slash is
\* https://github.com/<owner>/<repo>.
C19_RepoNames ==
  EventProcessed =>
    LET name == call.event.name
        type == call.event.type
        res == call.result
    IN /\ WellFormedRepo(name) /\ type \in {"WatchEvent", "ForkEvent"} =>
            /\ res.repo = name
            /\ EndsWith(res.message, name)
            /\ Len(res.message) = 1 + Len(name)
            /\ call.stage = "linked" =>
                 /\ call.url = <<"https://github.com/">> \o OwnerOf(name)
                                 \o <<"/">> \o RepoOf(name)
                 /\ OwnerOf(name) /= call.username =>
                      call.url /= <<"https://github.com/">> \o call.username
                                    \o <<"/">> \o RepoOf(name)
       /\ /\ WellFormedRepo(name)
          /\ type \in {"PushEvent", "PullRequestEvent", "IssuesEvent",
                       "CreateEvent"}
          => /\ res.repo = RepoOf(name)
             /\ IndexOf(res.message, RepoOf(name)) > 0
             /\ IndexOf(res.message, name) = 0
       /\ call.stage = "linked" /\ IndexOf(res.repo, <<"/">>) > 0 =>
            call.url = <<"https://github.com/">> \o res.repo

\* user a starred b/a: the event and its link name b/a
C19_Witness ==
  /\ call.fn = "processEvent" /\ call.stage = "linked"
  /\ call.event.type = "WatchEvent"
  /\ call.event.name = <<"b", "/", "a">>
  /\ call.username = <<"a">>
  /\ call.result.repo = <<"b", "/", "a">>
  /\ call.result.message = <<"Starred ", "b", "/", "a">>
  /\ call.url = <<"https://github.com/", "b", "/", "a">>

(***************************************************************************)
(* Reddit comment bodies: truncateText, as processActivity calls it        *)
(***************************************************************************)
MaxPad == 2        \* characters of each free piece of a comment body drawn

\* what String.prototype.trim removes, as far as the bodies drawn hold it
Whitespace == {" ", "\n"}

\* text.replace(/\n+/g, ' '): each run of newlines becomes one space.  A
\* newline that follows a newline is dropped; the character at position j
\* of the result is the one at the j-th position of s that is not dropped.
CollapseNewlines(s) ==
  LET dropped == {i \in DOMAIN s : s[i] = "\n" /\ i > 1 /\ s[i - 1] = "\n"}
      kept(j) == CHOOSE i \in j..(j + Cardinality(dropped)) :
                   /\ i \in DOMAIN s /\ i \notin dropped
                   /\ i - Cardinality({k \in dropped : k < i}) = j
  IN [j \in 1..(Len(s) - Cardinality(dropped)) |->
        IF s[kept(j)] = "\n" THEN " " ELSE s[kept(j)]]

\* String.prototype.trim
Trim(s) ==
  LET solid == {i \in DOMAIN s : s[i] \notin Whitespace}
  IN IF solid = {} THEN <<>>
     ELSE SubSeq(s,
            CHOOSE i \in solid : \A j \in 1..(i - 1) : s[j] \in Whitespace,
            CHOOSE i \in solid :
              \A j \in (i + 1)..Len(s) : s[j] \in Whitespace)

Ellipsis == <<".", ".", ".">>

\* truncateText with < in place of <=
truncateTextStrict(text, maxLength) ==
  IF text = <<>> THEN <<>>
  ELSE LET cleaned == Trim(CollapseNewlines(text))
       IN IF Len(cleaned) < maxLength THEN cleaned
          ELSE Trim(SubSeq(cleaned, 1, maxLength)) \o Ellipsis

truncateText(text, maxLength) ==
  IF text = <<>> THEN <<>>
  ELSE LET cleaned == Trim(CollapseNewlines(text))
       IN IF Len(cleaned) <= maxLength THEN cleaned
          ELSE Trim(SubSeq(cleaned, 1, maxLength)) \o Ellipsis

\* body: truncateText(data.body || '', 120)
CommentBody(body) == truncateText(body, 120)

\* count copies of the character c
Repeat(c, count) == [i \in 1..count |-> c]

\* the lengths of the two solid stretches of a body: none, one character,
\* around the limit of 120, and well beyond it
Stretches == {0, 1, 119, 120, 121, 200}

\* the free pieces: short strings of newlines, spaces and letters
Pads == {<<>>} \cup Strings({"\n", " ", "a"}, MaxPad)

\* pad, a stretch, pad, a stretch
CommentBodies ==
  {pre \o Repeat("x", n) \o mid \o Repeat("y", m) :
     pre \in Pads, mid \in Pads, n \in Stretches, m \in Stretches}

InitText ==
  /\ now = 0
  /\ cache = [p \in Platforms |-> <<>>]
  /\ reqs = [r \in Reqs |-> NewRequest]
  /\ log = <<>>
  /\ call \in {[fn |-> "truncateText", stage |-> "input", text |-> t,
                result |-> <<>>] : t \in CommentBodies}

\* processActivity normalises the body of a comment
ProcessComment ==
  /\ call.fn = "truncateText" /\ call.stage = "input"
  /\ call' = [call EXCEPT !.stage = "output",
                          !.result = CommentBody(call.text)]
  /\ UNCHANGED <<now, cache, reqs, log>>

NextText == ProcessComment

SpecText == InitText /\ [][NextText]_vars

(***************************************************************************)
(* C20                                                                     *)
(***************************************************************************)
\* the newlines of s, and those that start a run
Newlines(s) == {i \in DOMAIN s : s[i] = "\n"}
NewlineRuns(s) == {i \in Newlines(s) : i = 1 \/ s[i - 1] /= "\n"}

\* C20: the normalized body of a Reddit comment has every run of newlines
\* replaced by a single space, is at most 123 characters long (at most 120
\* characters of content followed by ...), and is the cleaned text itself
\* (newlines collapsed, trimmed) when that is at most 120 characters.
C20_CommentBody ==
  call.fn = "truncateText" /\ call.stage = "output" =>
    LET text == call.text
        out == call.result
        cleaned == Trim(CollapseNewlines(text))
    IN /\ Newlines(out) = {}
       /\ Len(out) <= 123
       /\ Len(cleaned) <= 120 => out = cleaned
       /\ Len(cleaned) > 120 =>
            /\ EndsWith(out, Ellipsis)
            /\ Len(out) - 3 <= 120
            /\ StartsWith(cleaned, SubSeq(out, 1, Len(out) - 3))
       /\ /\ text /= <<>>
          /\ text[1] \notin Whitespace /\ text[Len(text)] \notin Whitespace
          => /\ Len(cleaned) = Len(text) - Cardinality(Newlines(text))
                                 + Cardinality(NewlineRuns(text))
             /\ \A i \in NewlineRuns(text) : \E j \in DOMAIN cleaned :
                  /\ cleaned[j] = " "
                  /\ SubSeq(cleaned, 1, j - 1)
                       = CollapseNewlines(SubSeq(text, 1, i - 1))

\* 203 characters with a run of two newlines after the first: cut to 120
\* characters and the ellipsis, the run now one space
C20_Witness ==
  /\ call.fn = "truncateText" /\ call.stage = "output"
  /\ call.text = <<"x", "\n", "\n">> \o Repeat("y", 200)
  /\ call.result = <<"x", " ">> \o Repeat("y", 118) \o Ellipsis
  /\ Len(call.result) = 123

(***************************************************************************)
(* Numbers as strings                                                      *)
(***************************************************************************)
RECURSIVE Pow10(_)
Pow10(k) == IF k = 0 THEN 1 ELSE 10 * Pow10(k - 1)

DigitChars == <<"0", "1", "2", "3", "4", "5", "6", "7", "8", "9">>

\* the decimal digits of n, for 0 <= n < 10^9
Digits(n) ==
  LET k == CHOOSE d \in 1..9 : n < Pow10(d) /\ (d = 1 \/ n >= Pow10(d - 1))
  IN [i \in 1..k |-> DigitChars[((n \div Pow10(k - i)) % 10) + 1]]

\* Number.prototype.toString / `${n}` of an integer
NumToString(n) == IF n < 0 THEN <<"-">> \o Digits(-n) ELSE Digits(n)

IsDigit(c) == \E d \in DOMAIN DigitChars : DigitChars[d] = c
DigitValue(c) == (CHOOSE d \in DOMAIN DigitChars : DigitChars[d] = c) - 1

RECURSIVE DigitsValue(_)
\* the number a string of digits denotes
DigitsValue(ds) ==
  IF ds = <<>> THEN 0
  ELSE 10 * DigitsValue(SubSeq(ds, 1, Len(ds) - 1)) + DigitValue(ds[Len(ds)])

\* parseInt(s): an optional sign and the leading digits; NaN without a digit
ParseInt(s) ==
  LET neg == s /= <<>> /\ s[1] = "-"
      rest == IF s /= <<>> /\ s[1] \in {"-", "+"} THEN Tail(s) ELSE s
      stops == {i \in DOMAIN rest : ~IsDigit(rest[i])}
      count == IF stops = {} THEN Len(rest)
               ELSE (CHOOSE i \in stops : \A j \in stops : i <= j) - 1
      val == DigitsValue(SubSeq(rest, 1, count))
  IN IF count = 0 THEN [nan |-> TRUE, val |-> 0]
     ELSE [nan |-> FALSE, val |-> IF neg THEN -val ELSE val]

(***************************************************************************)
(* Relative times: formatRelativeTime of the adapters, isRecent of the     *)
(* clients.  An age is now.getTime() - date.getTime() in whole seconds:    *)
(* Math.floor(diffMs / 60000) = seconds \div 60, and so on.                *)
(***************************************************************************)
MaxSkew == 2       \* seconds drawn on either side of each age of interest

\* formatRelativeTime comparing hours to the day threshold with <=
formatRelativeTimeInclusive(age) ==
  LET diffMins == age \div 60
      diffHours == age \div 3600
      diffDays == age \div 86400
  IN IF diffMins < 60 THEN NumToString(diffMins) \o <<"m">>
     ELSE IF diffHours <= 24 THEN NumToString(diffHours) \o <<"h">>
     ELSE IF diffDays < 30 THEN NumToString(diffDays) \o <<"d">>
     ELSE NumToString(diffDays \div 30) \o <<"m", "o">>

formatRelativeTime(age) ==
  LET diffMins == age \div 60
      diffHours == age \div 3600
      diffDays == age \div 86400
  IN IF diffMins < 60 THEN NumToString(diffMins) \o <<"m">>
     ELSE IF diffHours < 24 THEN NumToString(diffHours) \o <<"h">>
     ELSE IF diffDays < 30 THEN NumToString(diffDays) \o <<"d">>
     ELSE NumToString(diffDays \div 30) \o <<"m", "o">>

\* the components that flag an item as NEW
RecencyClients == {"github", "githubOrg", "reddit", "substack", "youtube"}

\* isRecent of the component of platform p
isRecent(p, timeStr) ==
  LET num == ParseInt(timeStr)
  IN CASE p \in {"github", "githubOrg", "reddit"} ->
            \/ EndsWith(timeStr, <<"m">>)
            \/ EndsWith(timeStr, <<"h">>) /\ ~num.nan /\ num.val <= 24
       [] p = "substack" ->
            \/ EndsWith(timeStr, <<"m">>)
            \/ EndsWith(timeStr, <<"h">>)
            \/ EndsWith(timeStr, <<"d">>) /\ ~num.nan /\ num.val <= 2
       [] p = "youtube" ->
            \/ EndsWith(timeStr, <<"m">>)
            \/ EndsWith(timeStr, <<"h">>)
            \/ EndsWith(timeStr, <<"d">>) /\ ~num.nan /\ num.val <= 7

\* ages of interest, in seconds: now, 1 and 45 minutes, 1, 24, 25, 30, 48
\* and 60 hours, 3, 7, 7.5, 8, 30 and 60 days
AgesOfInterest ==
  {0, 60, 45 * 60, 3600, 24 * 3600, 25 * 3600, 30 * 3600, 48 * 3600,
   60 * 3600, 3 * 86400, 7 * 86400, 15 * 43200, 8 * 86400, 30 * 86400,
   60 * 86400}

\* a timestamp slightly in the future (clock skew) gives a negative age
Ages == {a + d : a \in AgesOfInterest, d \in (-MaxSkew)..MaxSkew}

InitTime ==
  /\ now = 0
  /\ cache = [p \in Platforms |-> <<>>]
  /\ reqs = [r \in Reqs |-> NewRequest]
  /\ log = <<>>
  /\ call \in {[fn |-> "formatRelativeTime", stage |-> "input", age |-> a,
                time |-> <<>>, client |-> "none", recent |-> FALSE] :
                 a \in Ages}

\* the adapter formats the time of an item
FormatTime ==
  /\ call.fn = "formatRelativeTime" /\ call.stage = "input"
  /\ call' = [call EXCEPT !.stage = "output",
                          !.time = formatRelativeTime(call.age)]
  /\ UNCHANGED <<now, cache, reqs, log>>

\* the component of platform p decides whether to show the NEW badge
FlagRecent(p) ==
  /\ call.fn = "formatRelativeTime" /\ call.stage = "output"
  /\ call' = [call EXCEPT !.stage = "flagged",
                          !.client = p,
                          !.recent = isRecent(p, call.time)]
  /\ UNCHANGED <<now, cache, reqs, log>>

NextTime ==
  \/ FormatTime
  \/ \E p \in RecencyClients : FlagRecent(p)

SpecTime == InitTime /\ [][NextTime]_vars

(***************************************************************************)
(* C21                                                                     *)
(***************************************************************************)
TimeFormatted ==
  call.fn = "formatRelativeTime" /\ call.stage \in {"output", "flagged"}

\* C21: formatRelativeTime maps an age to a unit by fixed thresholds: below
\* 60 minutes the whole minutes and m, otherwise below 24 hours the whole
\* hours and h, otherwise below 30 days the whole days and d, otherwise
\* days div 30 and mo; 45 minutes ends in m, 30 hours gives 1d.
C21_RelativeTimeThresholds ==
  TimeFormatted =>
    LET age == call.age
        out == call.time
    IN /\ age < 60 * 60 => out = NumToString(age \div 60) \o <<"m">>
       /\ age >= 60 * 60 /\ age < 24 * 3600 =>
            out = NumToString(age \div 3600) \o <<"h">>
       /\ age >= 24 * 3600 /\ age < 30 * 86400 =>
            out = NumToString(age \div 86400) \o <<"d">>
       /\ age >= 30 * 86400 =>
            out = NumToString((age \div 86400) \div 30) \o <<"m", "o">>
       /\ age = 45 * 60 => out = <<"4", "5", "m">>
       /\ age = 30 * 3600 => out = <<"1", "d">>

\* an item 30 hours old is shown as 1d
C21_Witness ==
  /\ call.fn = "formatRelativeTime" /\ call.stage = "output"
  /\ call.age = 30 * 3600
  /\ call.time = <<"1", "d">>

(***************************************************************************)
(* C23                                                                     *)
(***************************************************************************)
\* the recency window of a component, in seconds
RecencyWindow(p) ==
  CASE p \in {"github", "githubOrg", "reddit"} -> 24 * 3600
    [] p = "substack" -> 48 * 3600
    [] p = "youtube" -> 7 * 86400

\* C23: a component flags an item as recent only if the age the adapter
\* formatted lies within the platform's window: at most 24 hours for GitHub
\* and Reddit, at most 48 hours for Substack, at most 7 days for YouTube.
C23_RecentOnlyWithinWindow ==
  (call.fn = "formatRelativeTime" /\ call.stage = "flagged" /\ call.recent)
    => call.age <= RecencyWindow(call.client)

(***************************************************************************)
(* Counts: formatNumber of the components and of the YouTube adapter       *)
(***************************************************************************)
MaxStep == 2       \* how far above each count of interest the inputs go

\* (num / unit).toFixed(1) for an integer num >= 0: the multiple of a tenth
\* nearest to the double num / unit.  Where the exact quotient lies half way
\* between two tenths, the double decides: it is the quotient itself only at
\* a quarter or three quarters, and toFixed then takes the larger tenth;
\* otherwise the double lies just above or just below the quotient, which
\* tieUp tells.
toFixed1(num, unit, tieUp) ==
  LET floorTenths == (num * 10) \div unit
      rest == (num * 10) % unit
      exact == floorTenths % 10 \in {2, 7}
      tenths == IF 2 * rest > unit THEN floorTenths + 1
                ELSE IF 2 * rest < unit THEN floorTenths
                ELSE IF exact \/ tieUp THEN floorTenths + 1
                ELSE floorTenths
  IN NumToString(tenths \div 10) \o <<".">> \o NumToString(tenths % 10)

\* the suffixes of a copy of formatNumber: k and m in the GitHub, Reddit,
\* Substack and Instagram components, K and M in the YouTube component and
\* adapter
Suffixes(variant) ==
  IF variant = "upper" THEN [k |-> "K", m |-> "M"] ELSE [k |-> "k", m |-> "m"]

formatNumber(variant, num, tieUp) ==
  IF num >= 1000000
  THEN toFixed1(num, 1000000, tieUp) \o <<Suffixes(variant).m>>
  ELSE IF num >= 1000
  THEN toFixed1(num, 1000, tieUp) \o <<Suffixes(variant).k>>
  ELSE NumToString(num)

CountsOfInterest ==
  {0, 998, 1000, 1049, 1250, 1500, 999948, 999960, 999997, 1000000, 1500000,
   99999998}

Counts == {c + d : c \in CountsOfInterest, d \in 0..MaxStep}

InitNumber ==
  /\ now = 0
  /\ cache = [p \in Platforms |-> <<>>]
  /\ reqs = [r \in Reqs |-> NewRequest]
  /\ log = <<>>
  /\ call \in {[fn |-> "formatNumber", stage |-> "input", variant |-> v,
                num |-> n, tieUp |-> t, text |-> <<>>] :
                 v \in {"lower", "upper"}, n \in Counts, t \in BOOLEAN}

FormatNumber ==
  /\ call.fn = "formatNumber" /\ call.stage = "input"
  /\ call' = [call EXCEPT !.stage = "output",
                          !.text = formatNumber(call.variant, call.num,
                                                call.tieUp)]
  /\ UNCHANGED <<now, cache, reqs, log>>

NextNumber == FormatNumber

SpecNumber == InitNumber /\ [][NextNumber]_vars

(***************************************************************************)
(* C22                                                                     *)
(***************************************************************************)
\* text is digits, a point, one digit and the suffix
OneDecimalWith(text, suffix) ==
  /\ Len(text) >= 4
  /\ text[Len(text)] = suffix
  /\ IsDigit(text[Len(text) - 1])
  /\ text[Len(text) - 2] = "."
  /\ \A i \in 1..(Len(text) - 3) : IsDigit(text[i])

\* the number before the point, and the tenths after it
WholePart(text) == DigitsValue(SubSeq(text, 1, Len(text) - 3))
TenthsPart(text) == 10 * WholePart(text) + DigitValue(text[Len(text) - 1])

\* C22: formatNumber gives the plain decimal string below 1,000 (999 gives
\* 999), the thousands with exactly one decimal and k/K from 1,000 to below
\* 1,000,000 (1,000 gives 1.0k), the millions with exactly one decimal and
\* m/M from 1,000,000 (1,500,000 gives 1.5m); the number shown with k/K is
\* always below 1000.
C22_FormatNumber ==
  (call.fn = "formatNumber" /\ call.stage = "output") =>
    LET n == call.num
        out == call.text
        sfx == Suffixes(call.variant)
    IN /\ n < 1000 => out = NumToString(n)
       /\ n = 999 => out = <<"9", "9", "9">>
       /\ n >= 1000 /\ n < 1000000 =>
            /\ OneDecimalWith(out, sfx.k)
            /\ 2 * (n * 10 - TenthsPart(out) * 1000) \in -1000..1000
            /\ WholePart(out) < 1000
       /\ n = 1000 => out = <<"1", ".", "0", sfx.k>>
       /\ n >= 1000000 =>
            /\ OneDecimalWith(out, sfx.m)
            /\ 2 * (n * 10 - TenthsPart(out) * 1000000) \in -1000000..1000000
       /\ n = 1500000 => out = <<"1", ".", "5", sfx.m>>

(***************************************************************************)
(* Profile scraping, strategy by strategy: scrapeTikTokProfile and         *)
(* scrapeInstagramProfile                                                  *)
(***************************************************************************)
Scrapers == {"tiktok", "instagram"}

\* StrategyOrder that tries the second strategy before the first
StrategyOrderSwapped(p) ==
  IF p = "tiktok" THEN <<2, 1, 3>> ELSE <<2, 1, 3, 4>>

\* the strategies in the order of the function body.  TikTok: 1
\* __UNIVERSAL_DATA_FOR_REHYDRATION__, 2 SIGI_STATE, 3 the uniqueId pattern.
\* Instagram: 1 _sharedData, 2 __additionalDataLoaded, 3 the script tags,
\* 4 the meta tags.
StrategyOrder(p) ==
  IF p = "tiktok" THEN <<1, 2, 3>> ELSE <<1, 2, 3, 4>>

\* what strategy i of scraper p can do on a page: the pattern and meta-tag
\* strategies parse no JSON and cannot throw
StrategyCan(p, i) ==
  IF (p = "tiktok" /\ i = 3) \/ (p = "instagram" /\ i = 4)
  THEN StrategyOutcomes \ {"throws"}
  ELSE StrategyOutcomes

ScrapePages(p) ==
  {pg \in [DOMAIN StrategyOrder(p) -> StrategyOutcomes] :
     \A i \in DOMAIN pg : pg[i] \in StrategyCan(p, i)}

\* the Subject strategy i builds from a page where it finds the user: the
\* TikTok pattern only logs its match; the Instagram meta tags give the
\* counts and the name only
SubjectOf(p, i) ==
  CASE p = "tiktok" /\ i = 3 -> "null"
    [] p = "instagram" /\ i = 4 -> "basic"
    [] OTHER -> "full"

\* RunStrategy that lets an exception out of the strategy, to the catch
\* around the function body, which returns null
RunStrategyUncaught(p, i, outcome) ==
  CASE outcome = "user" /\ SubjectOf(p, i) /= "null" ->
         [returned |-> TRUE, subject |-> SubjectOf(p, i)]
    [] outcome = "throws" -> [returned |-> TRUE, subject |-> "null"]
    [] OTHER -> [returned |-> FALSE, subject |-> "null"]

\* one strategy: it returns the Subject it finds; a pattern that does not
\* match, an exception (caught by the strategy's own try) and a parsed
\* object without the user all fall through to the code after it
RunStrategy(p, i, outcome) ==
  IF outcome = "user" /\ SubjectOf(p, i) /= "null"
  THEN [returned |-> TRUE, subject |-> SubjectOf(p, i)]
  ELSE [returned |-> FALSE, subject |-> "null"]

InitScrape ==
  /\ now = 0
  /\ cache = [p \in Platforms |-> <<>>]
  /\ reqs = [r \in Reqs |-> NewRequest]
  /\ log = <<>>
  /\ \E p \in Scrapers, o \in Outcomes :
       \E pg \in ScrapePages(p) :
         call = [fn |-> "scrapeProfile", stage |-> "fetch", platform |-> p,
                 main |-> o, page |-> pg, attempted |-> <<>>,
                 subject |-> "null"]

\* fetch and res.text(): a non-2xx status and a network error return null
\* before any strategy
FetchProfilePage ==
  /\ call.fn = "scrapeProfile" /\ call.stage = "fetch"
  /\ call' = [call EXCEPT !.stage = IF call.main \in NonOk \/ call.main = "neterr"
                                    THEN "returned" ELSE "strategies"]
  /\ UNCHANGED <<now, cache, reqs, log>>

\* the next strategy of the function body runs on the page
TryStrategy ==
  /\ call.fn = "scrapeProfile" /\ call.stage = "strategies"
  /\ Len(call.attempted) < Len(StrategyOrder(call.platform))
  /\ LET i == StrategyOrder(call.platform)[Len(call.attempted) + 1]
         run == RunStrategy(call.platform, i, call.page[i])
     IN call' = [call EXCEPT !.attempted = Append(@, i),
                             !.subject = run.subject,
                             !.stage = IF run.returned THEN "returned"
                                       ELSE "strategies"]
  /\ UNCHANGED <<now, cache, reqs, log>>

\* no strategy returned: "Could not find ... user data in page", null
GiveUp ==
  /\ call.fn = "scrapeProfile" /\ call.stage = "strategies"
  /\ Len(call.attempted) = Len(StrategyOrder(call.platform))
  /\ call' = [call EXCEPT !.stage = "returned", !.subject = "null"]
  /\ UNCHANGED <<now, cache, reqs, log>>

NextScrape == FetchProfilePage \/ TryStrategy \/ GiveUp

SpecScrape == InitScrape /\ [][NextScrape]_vars

(***************************************************************************)
(* C24                                                                     *)
(***************************************************************************)
ScrapeReturned == call.fn = "scrapeProfile" /\ call.stage = "returned"

PageFetched == call.main \notin (NonOk \cup {"neterr"})

\* strategy i would give a Subject on the page
Yields(i) ==
  call.page[i] = "user" /\ SubjectOf(call.platform, i) /= "null"

AllStrategies == DOMAIN call.page

\* C24: the strategies are tried in a fixed order and the first that yields
\* a Subject wins: a Subject from strategy i is returned only if every
\* strategy before i failed, no strategy after i is attempted, and null is
\* returned only if every strategy failed.
C24_FirstStrategyWins ==
  /\ call.fn = "scrapeProfile" =>
       \* attempted is 1, 2, ... in order
       \A k \in DOMAIN call.attempted : call.attempted[k] = k
  /\ ScrapeReturned /\ call.subject /= "null" =>
       LET i == call.attempted[Len(call.attempted)]
       IN /\ Yields(i) /\ call.subject = SubjectOf(call.platform, i)
          /\ \A j \in AllStrategies : j < i => ~Yields(j)
          /\ \A j \in AllStrategies :
               j > i => \A k \in DOMAIN call.attempted : call.attempted[k] /= j
  /\ ScrapeReturned /\ call.subject = "null" /\ PageFetched =>
       \A j \in AllStrategies : ~Yields(j)

\* the first two Instagram strategies failed, the third gave the Subject and
\* the meta tags were not looked at
C24_Witness ==
  /\ ScrapeReturned
  /\ call.platform = "instagram"
  /\ call.page = <<"nomatch", "nouser", "user", "user">>
  /\ call.attempted = <<1, 2, 3>>
  /\ call.subject = "full"

(***************************************************************************)
(* C25                                                                     *)
(***************************************************************************)
Attempted(i) == \E k \in DOMAIN call.attempted : call.attempted[k] = i

\* C25: an exception while parsing inside one strategy is caught there and
\* the later strategies are still attempted: the scraper never returns null
\* while a later strategy would have yielded a Subject.
C25_ExceptionCaughtInStrategy ==
  ScrapeReturned =>
    \A i \in AllStrategies :
      Attempted(i) /\ call.page[i] = "throws" =>
        /\ \A j \in AllStrategies :
             j > i /\ (\A k \in (i + 1)..(j - 1) : ~Yields(k)) => Attempted(j)
        /\ call.subject = "null" =>
             \A j \in AllStrategies : j > i => ~Yields(j)

\* the first TikTok strategy threw and the second gave the Subject
C25_Witness ==
  /\ ScrapeReturned
  /\ call.platform = "tiktok"
  /\ call.page = <<"throws", "user", "nomatch">>
  /\ call.attempted = <<1, 2>>
  /\ call.subject = "full"

(***************************************************************************)
(* The Invidious mirrors, one at a time: fetchVideoDetails and             *)
(* fetchChannelDetails                                                     *)
(***************************************************************************)
INVIDIOUS_INSTANCES ==
  <<"vid.puffyan.us", "invidious.nerdvpn.de", "inv.nadeko.net",
    "invidious.privacyredirect.com">>

\* what one mirror does: "ok" and "drift" (a JSON object without the
\* expected fields, read as zeros and undefined) answer; a non-2xx status, a
\* network error and "notjson" (a body on which res.json() or the reading of
\* a field throws: HTML, the JSON null, a field of another type) do not
MirrorOutcomes == {"ok", "drift", "s500", "neterr", "notjson"}

DetailFunctions == {"fetchVideoDetails", "fetchChannelDetails"}

\* MirrorAnswers that takes every 2xx response for an answer
MirrorAnswersAny2xx(o) == o \in {"ok", "drift", "notjson"}

\* one turn of the loop returns the details: res.ok, and res.json() and the
\* reading of the fields do not throw
MirrorAnswers(o) == o \in {"ok", "drift"}

InitMirrors ==
  /\ now = 0
  /\ cache = [p \in Platforms |-> <<>>]
  /\ reqs = [r \in Reqs |-> NewRequest]
  /\ log = <<>>
  /\ call \in {[fn |-> f, stage |-> "loop", mirrors |-> ms,
                contacted |-> <<>>, details |-> "null"] :
                 f \in DetailFunctions,
                 ms \in [DOMAIN INVIDIOUS_INSTANCES -> MirrorOutcomes]}

\* for (const instance of INVIDIOUS_INSTANCES): the next instance is fetched
ContactMirror ==
  /\ call.fn \in DetailFunctions /\ call.stage = "loop"
  /\ Len(call.contacted) < Len(INVIDIOUS_INSTANCES)
  /\ LET j == Len(call.contacted) + 1
     IN call' = [call EXCEPT
                   !.contacted = Append(@, INVIDIOUS_INSTANCES[j]),
                   !.details = IF MirrorAnswers(call.mirrors[j])
                               THEN "details" ELSE "null",
                   !.stage = IF MirrorAnswers(call.mirrors[j])
                             THEN "returned" ELSE "loop"]
  /\ UNCHANGED <<now, cache, reqs, log>>

\* the loop ends: return null
MirrorsExhausted ==
  /\ call.fn \in DetailFunctions /\ call.stage = "loop"
  /\ Len(call.contacted) = Len(INVIDIOUS_INSTANCES)
  /\ call' = [call EXCEPT !.stage = "returned", !.details = "null"]
  /\ UNCHANGED <<now, cache, reqs, log>>

NextMirrors == ContactMirror \/ MirrorsExhausted

SpecMirrors == InitMirrors /\ [][NextMirrors]_vars

(***************************************************************************)
(* C26                                                                     *)
(***************************************************************************)
\* mirror j gave a non-2xx status, a network error or a body that does not
\* parse
MirrorFailed(j) == call.mirrors[j] \in {"s500", "neterr", "notjson"}

\* C26: fetchVideoDetails and fetchChannelDetails contact the mirrors
\* strictly in list order: mirror j only after every mirror before it
\* failed; after the first 2xx answer that parses no further mirror is
\* contacted; the result is null exactly when every mirror failed.
C26_MirrorsInOrder ==
  call.fn \in DetailFunctions =>
    /\ \A k \in DOMAIN call.contacted :
         /\ call.contacted[k] = INVIDIOUS_INSTANCES[k]
         /\ \A j \in 1..(k - 1) : MirrorFailed(j)
    /\ call.stage = "returned" =>
         /\ \A k \in DOMAIN call.contacted :
              k < Len(call.contacted) => MirrorFailed(k)
         /\ call.details = "null"
              <=> \A j \in DOMAIN INVIDIOUS_INSTANCES : MirrorFailed(j)
         /\ call.details /= "null" =>
              ~MirrorFailed(Len(call.contacted))

\* two mirrors failed, the third answered and the fourth was not contacted
C26_Witness ==
  /\ call.fn = "fetchVideoDetails" /\ call.stage = "returned"
  /\ call.mirrors = <<"s500", "notjson", "ok", "ok">>
  /\ call.contacted = SubSeq(INVIDIOUS_INSTANCES, 1, 3)
  /\ call.details = "details"

(***************************************************************************)
(* C27                                                                     *)
(***************************************************************************)
\* what every mirror answered: a non-2xx status, a network error or a body
\* that does not parse
EveryMirrorFailed(o) == o \in {"s403", "s404", "s500", "neterr", "notjson"}

\* the feed was fetched and parsed, and no mirror answered for the channel
\* or for any video
FeedOnly(r) ==
  /\ reqs[r].platform = "youtube"
  /\ Pos("done", r) > 0
  /\ reqs[r].up.main = "ok"
  /\ EveryMirrorFailed(reqs[r].up.aux)
  /\ EveryMirrorFailed(reqs[r].up.aux2)

\* C27: when the feed is fetched and every mirror fails for the channel and
\* for every video, the YouTube handler answers 200 with cached false, the
\* channel and the videos exactly as parsed from the feed, without any
\* detail of the mirrors, and stores that payload in the cache.
C27_FeedOnlyWhenMirrorsFail ==
  \A r \in Reqs :
    FeedOnly(r) =>
      /\ reqs[r].resp.status = 200
      /\ reqs[r].resp.cached = "false"
      /\ reqs[r].resp.payload = Payload("basic", FeedItems, "none", FALSE, r)
      /\ reqs[r].key \in DOMAIN cache["youtube"]
      /\ cache["youtube"][reqs[r].key].data = reqs[r].resp.payload

\* the feed answered, the mirrors gave a 500 for the channel and a network
\* error for the videos
C27_Witness ==
  \E r \in Reqs :
    /\ FeedOnly(r)
    /\ reqs[r].up.aux = "s500"
    /\ reqs[r].up.aux2 = "neterr"
    /\ reqs[r].calls = FirstCalls("youtube") + 4 + Len(FeedItems) * 4
    /\ reqs[r].resp.status = 200

(***************************************************************************)
(* Feeds item by item: parseRSS and the enrichment of the YouTube and      *)
(* Substack handlers                                                       *)
(***************************************************************************)
MaxEntries == 11   \* entries in a feed: one more than parseRSS keeps

Feeds == {"youtube", "substack"}

\* while (... && videos.length < 10)
PARSE_LIMIT == 10

\* videos.slice(0, 4), posts.slice(0, 5)
ENRICH_LIMIT(p) == IF p = "youtube" THEN 4 ELSE 5

\* the Item parseRSS pushes for the entry at position pos: a Substack post
\* starts with likes, comments and restacks 0, a YouTube video without
\* views, likes and duration
ParsedItem(p, pos) ==
  [id |-> pos, stats |-> IF p = "substack" THEN "zero" ELSE "absent"]

\* parseRSS: the entries that have their required tags, in feed order, until
\* PARSE_LIMIT items are kept.  entries[i] tells whether entry i has them.
parseRSS(p, entries) ==
  LET valid == {i \in DOMAIN entries : entries[i]}
      rank(i) == Cardinality({j \in valid : j <= i})
      kept == {i \in valid : rank(i) <= PARSE_LIMIT}
  IN [k \in 1..Cardinality(kept) |->
        ParsedItem(p, CHOOSE i \in kept : rank(i) = k)]

\* the positions a lookup (fetchVideoDetails, fetchPostStats) is made for
Lookups(p, items) == 1..Min(Len(items), ENRICH_LIMIT(p))

\* Enrich that leaves out the items whose lookup gave null
EnrichDropsFailed(p, items, found) ==
  LET head == [i \in Lookups(p, items) |->
                 IF found[i] THEN [items[i] EXCEPT !.stats = "details"]
                 ELSE items[i]]
  IN SelectSeq(head, LAMBDA it : it.stats = "details")
       \o SubSeq(items, ENRICH_LIMIT(p) + 1, Len(items))

\* [...enriched, ...items.slice(limit)]: found[i] tells whether the lookup
\* for the item at position i gave details
Enrich(p, items, found) ==
  LET head == [i \in Lookups(p, items) |->
                 IF found[i] THEN [items[i] EXCEPT !.stats = "details"]
                 ELSE items[i]]
  IN head \o SubSeq(items, ENRICH_LIMIT(p) + 1, Len(items))

\* feeds of up to MaxEntries entries, at most one of them without its tags
FeedEntries ==
  {[i \in 1..n |-> i /= bad] : n \in 0..MaxEntries, bad \in 0..MaxEntries}

InitFeed ==
  /\ now = 0
  /\ cache = [p \in Platforms |-> <<>>]
  /\ reqs = [r \in Reqs |-> NewRequest]
  /\ log = <<>>
  /\ \E p \in Feeds, es \in FeedEntries :
       \E found \in [1..ENRICH_LIMIT(p) -> BOOLEAN] :
         call = [fn |-> "enrich", stage |-> "feed", platform |-> p,
                 entries |-> es, found |-> found, parsed |-> <<>>,
                 lookups |-> {}, items |-> <<>>]

\* the handler parses the feed it fetched
ParseFeed ==
  /\ call.fn = "enrich" /\ call.stage = "feed"
  /\ call' = [call EXCEPT !.stage = "parsed",
                          !.parsed = parseRSS(call.platform, call.entries)]
  /\ UNCHANGED <<now, cache, reqs, log>>

\* Promise.all over the first items, then the list of the response
EnrichItems ==
  /\ call.fn = "enrich" /\ call.stage = "parsed"
  /\ call' = [call EXCEPT
                !.stage = "enriched",
                !.lookups = {call.parsed[i].id :
                               i \in Lookups(call.platform, call.parsed)},
                !.items = Enrich(call.platform, call.parsed, call.found)]
  /\ UNCHANGED <<now, cache, reqs, log>>

NextFeed == ParseFeed \/ EnrichItems

SpecFeed == InitFeed /\ [][NextFeed]_vars

(***************************************************************************)
(* C28                                                                     *)
(***************************************************************************)
\* C28: enrichment is bounded and keeps the order: lookups are made only
\* for the first 4 videos (YouTube) or the first 5 posts (Substack); the
\* list of the response has the length (at most 10) and the order of the
\* parsed feed; an item beyond the bound never carries enrichment (Substack
\* stats stay 0); an item within the bound whose lookup failed is returned
\* unchanged, not dropped.
C28_EnrichmentBounded ==
  (call.fn = "enrich" /\ call.stage = "enriched") =>
    LET bound == IF call.platform = "youtube" THEN 4 ELSE 5
        parsed == call.parsed
        items == call.items
    IN /\ call.lookups =
            {parsed[i].id : i \in {j \in DOMAIN parsed : j <= bound}}
       /\ Len(items) = Len(parsed)
       /\ Len(items) <= 10
       /\ \A i \in DOMAIN items : items[i].id = parsed[i].id
       /\ \A i \in DOMAIN items :
            i > bound =>
              /\ items[i] = parsed[i]
              /\ items[i].stats =
                   (IF call.platform = "substack" THEN "zero" ELSE "absent")
       /\ \A i \in DOMAIN items :
            i <= bound /\ ~call.found[i] => items[i] = parsed[i]
       /\ \A i \in DOMAIN items :
            i <= bound /\ call.found[i] => items[i].stats = "details"

\* a Substack feed of eleven posts: ten are kept, the lookup for the second
\* fails and it stays in its place between two posts with stats
C28_Witness ==
  /\ call.fn = "enrich" /\ call.stage = "enriched"
  /\ call.platform = "substack"
  /\ Len(call.entries) = 11
  /\ Len(call.items) = 10
  /\ call.lookups = 1..5
  /\ call.items[1].stats = "details"
  /\ call.items[2] = [id |-> 2, stats |-> "zero"]
  /\ call.items[3].stats = "details"
  /\ call.items[6].stats = "zero"

(***************************************************************************)
(* Embeds identifier by identifier: the videoIds / postIds of the TikTok   *)
(* and Instagram handlers                                                  *)
(***************************************************************************)
MaxIds == 7        \* identifiers in a request: one more than Instagram asks

\* videoIds.slice(0, 3), postIds.slice(0, 6)
EMBED_LIMIT(p) == IF p = "tiktok" THEN 3 ELSE 6

\* the identifiers "1", "2", ...
IdOf(i) == <<DigitChars[i + 1]>>

\* Asked without the slice
AskedAll(p, ids) == ids

\* the identifiers an oEmbed call is made for
Asked(p, ids) == SubSeq(ids, 1, Min(Len(ids), EMBED_LIMIT(p)))

\* Promise.all over the asked identifiers and the filter: answer(id) is what
\* the oEmbed endpoint does for id
EmbedItems(p, asked, answer) ==
  LET embeds == [i \in 1..Len(asked) |->
                   [id |-> asked[i],
                    embed |-> IF p = "tiktok"
                              THEN fetchVideoEmbed(answer[asked[i]])
                              ELSE fetchPostEmbed(answer[asked[i]])]]
      kept == SelectSeq(embeds,
                        LAMBDA e : IF p = "tiktok" THEN KeepVideo(e.embed)
                                   ELSE e.embed /= "null")
  IN [i \in 1..Len(kept) |-> kept[i].id]

\* how an oEmbed call can go wrong
EmbedMisses == {"s404", "neterr", "notjson", "drift"}

\* the identifiers 1..n in the caller's order, the piece at position gap (if
\* any) left empty: "1,,3"
IdPieces(n, gap) == [i \in 1..n |-> IF i = gap THEN <<>> ELSE IdOf(i)]

InitEmbeds ==
  /\ now = 0
  /\ cache = [p \in Platforms |-> <<>>]
  /\ reqs = [r \in Reqs |-> NewRequest]
  /\ log = <<>>
  /\ \E p \in Scrapers, n \in 0..MaxIds, miss \in EmbedMisses :
       \E gap \in 0..n, good \in SUBSET (1..n) :
         call = [fn |-> "embeds", stage |-> "request", platform |-> p,
                 param |-> IF n = 0 /\ miss = "s404" THEN Null
                           ELSE Str(JoinComma(IdPieces(n, gap))),
                 supplied |-> SelectSeq(IdPieces(n, gap),
                                        LAMBDA x : x /= <<>>),
                 answer |-> [id \in {IdOf(i) : i \in 1..MaxIds} |->
                               IF \E i \in good : id = IdOf(i)
                               THEN "ok" ELSE miss],
                 calls |-> <<>>, items |-> <<>>, status |-> 0]

\* the handler from the identifiers of the request to its response
RequestEmbeds ==
  /\ call.fn = "embeds" /\ call.stage = "request"
  /\ LET ids == ParseIds(call.param)
         asked == IF Len(ids) > 0 THEN Asked(call.platform, ids) ELSE <<>>
     IN call' = [call EXCEPT
                   !.stage = "response",
                   !.calls = asked,
                   !.items = EmbedItems(call.platform, asked, call.answer),
                   !.status = 200]
  /\ UNCHANGED <<now, cache, reqs, log>>

NextEmbeds == RequestEmbeds

SpecEmbeds == InitEmbeds /\ [][NextEmbeds]_vars

(***************************************************************************)
(* C29                                                                     *)
(***************************************************************************)
EmbedsAnswered == call.fn = "embeds" /\ call.stage = "response"

\* the place of identifier x in the list ids, 0 when it is not there
PlaceIn(ids, x) ==
  IF \E i \in DOMAIN ids : ids[i] = x
  THEN CHOOSE i \in DOMAIN ids : ids[i] = x
  ELSE 0

\* the first identifiers the caller supplied, up to the handler's bound
FirstSupplied ==
  LET bound == IF call.platform = "tiktok" THEN 3 ELSE 6
  IN SubSeq(call.supplied, 1, Min(Len(call.supplied), bound))

\* C29: the TikTok and Instagram handlers make at most 3 and 6 oEmbed
\* calls, only for the first 3 and 6 identifiers supplied; the items
\* returned are a subsequence, in the caller's order, of those identifiers;
\* without identifiers no oEmbed call is made and the list is empty.
C29_EmbedsBounded ==
  EmbedsAnswered =>
    /\ Len(call.calls) <= (IF call.platform = "tiktok" THEN 3 ELSE 6)
    /\ call.calls = FirstSupplied
    /\ \A i \in DOMAIN call.items : PlaceIn(FirstSupplied, call.items[i]) > 0
    /\ \A i, j \in DOMAIN call.items :
         i < j => PlaceIn(FirstSupplied, call.items[i])
                    < PlaceIn(FirstSupplied, call.items[j])
    /\ call.supplied = <<>> => call.calls = <<>> /\ call.items = <<>>

\* seven post identifiers: six calls, and the posts that answered come back
\* in the caller's order
C29_Witness ==
  /\ EmbedsAnswered
  /\ call.platform = "instagram"
  /\ Len(call.supplied) = 7
  /\ Len(call.calls) = 6
  /\ call.items = <<IdOf(1), IdOf(3), IdOf(6)>>

(***************************************************************************)
(* C30                                                                     *)
(***************************************************************************)
\* C30: an oEmbed response for one identifier that is a non-2xx status, a
\* network error or a body that is not JSON is a miss: the item of that
\* identifier is left out, the items of the other identifiers are still
\* returned, and the request is answered 200.
C30_EmbedMissOmitsItem ==
  EmbedsAnswered =>
    /\ call.status = 200
    /\ \A k \in DOMAIN call.calls :
         LET id == call.calls[k]
         IN /\ call.answer[id] \in {"s404", "neterr", "notjson"} =>
                 PlaceIn(call.items, id) = 0
            /\ call.answer[id] = "ok" => PlaceIn(call.items, id) > 0

\* three video identifiers, the second answered by an HTML page: the first
\* and the third are returned
C30_Witness ==
  /\ EmbedsAnswered
  /\ call.platform = "tiktok"
  /\ call.calls = <<IdOf(1), IdOf(2), IdOf(3)>>
  /\ call.answer[IdOf(2)] = "notjson"
  /\ call.items = <<IdOf(1), IdOf(3)>>
  /\ call.status = 200

(***************************************************************************)
(* The order in which a handler issues its upstream calls: every await of  *)
(* the handler body issues a group of calls and waits for all of them      *)
(***************************************************************************)
UpstreamCall(fn, item) == [fn |-> fn, item |-> item]

\* the most items a handler makes one call each for
ItemLimit(p) ==
  CASE p \in {"youtube", "substack"} -> ENRICH_LIMIT(p)
    [] p \in {"tiktok", "instagram"} -> EMBED_LIMIT(p)
    [] OTHER -> 0

\* the groups of calls of the handler of p after a cache miss, in the order
\* of its awaits; n is the number of items (videos or posts of the feed,
\* identifiers of the request) it makes one call each for
CallGroups(p, n) ==
  CASE p = "github" ->
         << {UpstreamCall(f, 0) :
               f \in {"fetchUserInfo", "fetchEvents", "fetchContributions"}} >>
    [] p = "githubOrg" ->
         << {UpstreamCall(f, 0) :
               f \in {"fetchOrgInfo", "fetchOrgEvents", "fetchOrgRepos"}} >>
    [] p = "reddit" ->
         << {UpstreamCall(f, 0) :
               f \in {"fetchRedditUser", "fetchRedditActivity"}} >>
    [] p = "discord" -> << {UpstreamCall("fetchDiscordWidget", 0)} >>
    [] p = "substack" ->
         << {UpstreamCall("fetchRSS", 0)},
            {UpstreamCall("fetchPostStats", i) : i \in 1..n} >>
    [] p = "youtube" ->
         << {UpstreamCall("fetchRSS", 0)},
            {UpstreamCall("fetchChannelDetails", 0)},
            {UpstreamCall("fetchVideoDetails", i) : i \in 1..n} >>
    [] p = "tiktok" ->
         << {UpstreamCall("scrapeTikTokProfile", 0)},
            {UpstreamCall("fetchVideoEmbed", i) : i \in 1..n} >>
    [] p = "instagram" ->
         << {UpstreamCall("scrapeInstagramProfile", 0)},
            {UpstreamCall("fetchPostEmbed", i) : i \in 1..n} >>

\* the calls whose result a call's arguments are computed from: video.id and
\* post.slug come from the parsed feed; every other argument is a parameter
\* of the request
ArgumentsFrom(fn) ==
  IF fn \in {"fetchVideoDetails", "fetchPostStats"} THEN {"fetchRSS"} ELSE {}

\* the handler returns before its later groups: if (!rss) return 500
ReturnsAfterFirst(p, feedOk) == p \in {"youtube", "substack"} /\ ~feedOk

InitIssue ==
  /\ now = 0
  /\ cache = [p \in Platforms |-> <<>>]
  /\ reqs = [r \in Reqs |-> NewRequest]
  /\ log = <<>>
  /\ \E p \in Platforms, feedOk \in BOOLEAN :
       \E n \in 0..ItemLimit(p) :
         call = [fn |-> "handler", stage |-> "running", platform |-> p,
                 items |-> n, feedOk |-> feedOk, issued |-> <<>>,
                 settled |-> {}]

IssuedCalls == UNION {call.issued[k] : k \in DOMAIN call.issued}

\* the handler reaches its next await and issues the calls of that group
IssueGroup ==
  /\ call.fn = "handler" /\ call.stage = "running"
  /\ call.settled = IssuedCalls
  /\ Len(call.issued) < Len(CallGroups(call.platform, call.items))
  /\ ~(Len(call.issued) >= 1 /\ ReturnsAfterFirst(call.platform, call.feedOk))
  /\ call' = [call EXCEPT
                !.issued = Append(@, CallGroups(call.platform, call.items)
                                       [Len(call.issued) + 1])]
  /\ UNCHANGED <<now, cache, reqs, log>>

\* one of the calls in flight settles
SettleCall(c) ==
  /\ call.fn = "handler" /\ call.stage = "running"
  /\ c \in IssuedCalls \ call.settled
  /\ call' = [call EXCEPT !.settled = @ \cup {c}]
  /\ UNCHANGED <<now, cache, reqs, log>>

\* every group was awaited (or the handler returned early): the Response
Respond ==
  /\ call.fn = "handler" /\ call.stage = "running"
  /\ call.settled = IssuedCalls
  /\ \/ Len(call.issued) = Len(CallGroups(call.platform, call.items))
     \/ Len(call.issued) >= 1 /\ ReturnsAfterFirst(call.platform, call.feedOk)
  /\ call' = [call EXCEPT !.stage = "responded"]
  /\ UNCHANGED <<now, cache, reqs, log>>

NextIssue ==
  \/ IssueGroup
  \/ \E c \in IssuedCalls : SettleCall(c)
  \/ Respond

SpecIssue == InitIssue /\ [][NextIssue]_vars

(***************************************************************************)
(* C31                                                                     *)
(***************************************************************************)
\* C31: within every handler, upstream calls that do not depend on one
\* another's results are issued together, before any of them is awaited:
\* a call is issued after another one only when its arguments are computed
\* from that other call's result.
C31_IndependentCallsConcurrent ==
  call.fn = "handler" =>
    \A k, l \in DOMAIN call.issued :
      k < l =>
        \A d \in call.issued[k], c \in call.issued[l] :
          d.fn \in ArgumentsFrom(c.fn)

(***************************************************************************)
(* C32                                                                     *)
(***************************************************************************)
\* a call that failed: a non-2xx status, a network error, a body that is
\* not JSON
CallFailed(o) == o \in {"s403", "s404", "s500", "neterr", "notjson"}

\* the GitHub user handler fetched, and each of its three calls either
\* failed or answered as expected
GitHubFetched(r) ==
  /\ reqs[r].platform = "github"
  /\ Pos("done", r) > 0
  /\ \A o \in {reqs[r].up.main, reqs[r].up.aux, reqs[r].up.aux2} :
       CallFailed(o) \/ o = "ok"

\* C32: in the GitHub user handler the profile, events and contributions
\* calls degrade independently: whatever subset of them fails, the response
\* is 200, exactly the parts whose call failed are empty (user null, no
\* events, no contribution days) and every part whose call succeeded is
\* populated.
C32_PartsDegradeIndependently ==
  \A r \in Reqs :
    GitHubFetched(r) =>
      LET up == reqs[r].up
          data == reqs[r].resp.payload
      IN /\ reqs[r].resp.status = 200
         /\ data.subject = (IF CallFailed(up.main) THEN "null" ELSE "full")
         /\ data.items = (IF CallFailed(up.aux) THEN <<>> ELSE FeedItems)
         /\ data.extra = (IF CallFailed(up.aux2) THEN "none" ELSE "some")

\* the profile and the contributions calls failed, the events call did not:
\* the events are returned
C32_Witness ==
  \E r \in Reqs :
    /\ GitHubFetched(r)
    /\ reqs[r].up = Scenario("s500", "ok", "neterr", NoPage)
    /\ reqs[r].resp.payload.subject = "null"
    /\ reqs[r].resp.payload.items = FeedItems
    /\ reqs[r].resp.payload.extra = "none"

(***************************************************************************)
(* The event lists of the GitHub adapters: fetchEvents and fetchOrgEvents  *)
(***************************************************************************)
MaxEvents == 12    \* events in an upstream answer: more than the adapters keep

EventAdapters == {"github", "githubOrg"}

\* the type processEvent gives an event of an upstream type, "null" for the
\* default branch of its switch; the org adapter has two more cases
ProcessedType(adapter, type) ==
  CASE type = "PushEvent" -> "push"
    [] type = "PullRequestEvent" -> "pr"
    [] type = "IssuesEvent" -> "issue"
    [] type = "WatchEvent" -> "star"
    [] type = "ForkEvent" -> "fork"
    [] type = "CreateEvent" -> "create"
    [] type = "ReleaseEvent" /\ adapter = "githubOrg" -> "release"
    [] type = "MemberEvent" /\ adapter = "githubOrg" -> "member"
    [] OTHER -> "null"

\* .slice(0, 10)
EVENT_LIMIT == 10

\* keepEvents that cuts the list before it drops the null events
keepEventsSliceFirst(adapter, events) ==
  LET first == SubSeq(events, 1, Min(Len(events), EVENT_LIMIT))
      processed == [i \in DOMAIN first |->
                      [id |-> first[i].id,
                       type |-> ProcessedType(adapter, first[i].type)]]
  IN SelectSeq(processed, LAMBDA e : e.type /= "null")

\* events.map(processEvent).filter(e => e !== null).slice(0, 10)
keepEvents(adapter, events) ==
  LET processed == [i \in DOMAIN events |->
                      [id |-> events[i].id,
                       type |-> ProcessedType(adapter, events[i].type)]]
      kept == SelectSeq(processed, LAMBDA e : e.type /= "null")
  IN SubSeq(kept, 1, Min(Len(kept), EVENT_LIMIT))

UpstreamTypes ==
  {"PushEvent", "PullRequestEvent", "IssuesEvent", "WatchEvent", "ForkEvent",
   "CreateEvent", "ReleaseEvent", "MemberEvent", "GollumEvent",
   "PublicEvent"}

\* upstream answers: n events, all pushes except one of another type at
\* position a and one at position b
UpstreamEvents(n, a, ta, b, tb) ==
  [i \in 1..n |->
     [id |-> i,
      type |-> IF i = a THEN ta ELSE IF i = b THEN tb ELSE "PushEvent"]]

InitEventList ==
  /\ now = 0
  /\ cache = [p \in Platforms |-> <<>>]
  /\ reqs = [r \in Reqs |-> NewRequest]
  /\ log = <<>>
  /\ \E ad \in EventAdapters, n \in 0..MaxEvents :
       \E a \in 0..(IF n > 3 THEN 3 ELSE n), b \in 0..n :
         \E ta \in UpstreamTypes, tb \in {"GollumEvent", "ReleaseEvent"} :
           call = [fn |-> "fetchEvents", stage |-> "answered", adapter |-> ad,
                   upstream |-> UpstreamEvents(n, a, ta, b, tb),
                   events |-> <<>>]

\* the adapter turns the upstream answer into its events
KeepEvents ==
  /\ call.fn = "fetchEvents" /\ call.stage = "answered"
  /\ call' = [call EXCEPT !.stage = "returned",
                          !.events = keepEvents(call.adapter, call.upstream)]
  /\ UNCHANGED <<now, cache, reqs, log>>

NextEventList == KeepEvents

SpecEventList == InitEventList /\ [][NextEventList]_vars

(***************************************************************************)
(* C33                                                                     *)
(***************************************************************************)
\* the upstream types with an entry in the dispatch table of the adapter
InDispatchTable(adapter, type) ==
  \/ type \in {"PushEvent", "PullRequestEvent", "IssuesEvent", "WatchEvent",
               "ForkEvent", "CreateEvent"}
  \/ adapter = "githubOrg" /\ type \in {"ReleaseEvent", "MemberEvent"}

\* the positions of the upstream events with a dispatched type, and how many
\* of them come at or before position i
Dispatched == {i \in DOMAIN call.upstream :
                 InDispatchTable(call.adapter, call.upstream[i].type)}
DispatchedUpTo(i) == Cardinality({j \in Dispatched : j <= i})

\* C33: the events the GitHub user and org adapters return are exactly the
\* first 10, in upstream order, of the upstream events whose type is in the
\* dispatch table; events of another type are dropped and do not count
\* toward the 10.
C33_FirstTenDispatched ==
  (call.fn = "fetchEvents" /\ call.stage = "returned") =>
    /\ Len(call.events) = Min(Cardinality(Dispatched), 10)
    /\ \A k \in DOMAIN call.events :
         LET i == call.events[k].id
         IN i \in Dispatched /\ DispatchedUpTo(i) = k

\* twelve upstream events, the second of a type without an entry: the
\* eleventh upstream event is the tenth returned
C33_Witness ==
  /\ call.fn = "fetchEvents" /\ call.stage = "returned"
  /\ call.adapter = "github"
  /\ Len(call.upstream) = 12
  /\ call.upstream[2].type = "GollumEvent"
  /\ Len(call.events) = 10
  /\ call.events[10].id = 11

(***************************************************************************)
(* The Discord widget: processWidgetData                                   *)
(***************************************************************************)
MaxMembers == 3    \* members whose status and channel vary freely

\* .slice(0, 20)
MEMBER_LIMIT == 20

Statuses == {"online", "idle", "dnd"}

\* statusOrder with idle and dnd exchanged
statusOrderDndFirst(status) ==
  CASE status = "online" -> 0
    [] status = "idle" -> 2
    [] status = "dnd" -> 1

\* const statusOrder = { online: 0, idle: 1, dnd: 2 }
statusOrder(status) ==
  CASE status = "online" -> 0
    [] status = "idle" -> 1
    [] status = "dnd" -> 2

RECURSIVE AscendingFrom(_, _, _, _)
\* the elements of list with key k, then those with key k + 1, ... up to
\* top, each group in the order of list
AscendingFrom(list, key(_), k, top) ==
  IF k > top THEN <<>>
  ELSE SelectSeq(list, LAMBDA e : key(e) = k)
         \o AscendingFrom(list, key, k + 1, top)

\* Array.prototype.sort with the comparator key(a) - key(b), for keys in
\* 0..top: the sort is stable, so its result is the groups of equal key in
\* ascending order of the key
SortByKey(list, key(_), top) == AscendingFrom(list, key, 0, top)

\* widget.members.filter(m => m.channel_id !== undefined).length
membersInVoice(members) ==
  Len(SelectSeq(members, LAMBDA m : m.channel_id /= "undefined"))

\* voiceChannels that keeps the upstream order of the channels
voiceChannelsUnsorted(widget) ==
  [i \in DOMAIN widget.channels |->
     [id |-> widget.channels[i],
      memberCount |->
        Len(SelectSeq(widget.members,
                      LAMBDA m : m.channel_id = widget.channels[i]))]]

\* widget.channels.map(...).sort((a, b) => b.memberCount - a.memberCount)
voiceChannels(widget) ==
  LET counted == [i \in DOMAIN widget.channels |->
                    [id |-> widget.channels[i],
                     memberCount |->
                       Len(SelectSeq(widget.members,
                                     LAMBDA m : m.channel_id = widget.channels[i]))]]
      most == Len(widget.members)
  IN SortByKey(counted, LAMBDA c : most - c.memberCount, most)

\* widget.members.map(...).sort(by statusOrder).slice(0, 20)
processedMembers(members) ==
  LET sorted == SortByKey(members, LAMBDA m : statusOrder(m.status), 2)
  IN SubSeq(sorted, 1, Min(Len(sorted), MEMBER_LIMIT))

processWidgetData(widget) ==
  [stats |-> [voiceChannelCount |-> Len(widget.channels),
              membersInVoice |-> membersInVoice(widget.members)],
   voiceChannels |-> voiceChannels(widget),
   members |-> [i \in DOMAIN processedMembers(widget.members) |->
                  [id |-> processedMembers(widget.members)[i].id,
                   status |-> processedMembers(widget.members)[i].status]]]

\* what channel_id of a member can be: absent, null, a listed channel, a
\* channel the widget does not list
ChannelRefs == {"undefined", "null", "c1", "c2", "c9"}

ChannelLists ==
  {<<>>, <<"c1">>, <<"c1", "c2">>, <<"c2", "c1">>, <<"c3", "c1", "c2">>}

\* members numbered in upstream order
Numbered(statuses, refs) ==
  [i \in DOMAIN statuses |->
     [id |-> i, status |-> statuses[i],
      channel_id |-> IF i \in DOMAIN refs THEN refs[i] ELSE "undefined"]]

\* member lists around the limit: h members of any status, then a run of
\* one status, then t of any status
LongMemberLists(h, run, s, t) ==
  {Numbered(head \o [i \in 1..run |-> s] \o tail, <<>>) :
     head \in [1..h -> Statuses], tail \in [1..t -> Statuses]}

\* short member lists, each member in any channel or none
VoiceMemberLists ==
  UNION {{Numbered([i \in 1..n |-> "online"], refs) :
            refs \in [1..n -> ChannelRefs]} : n \in 0..MaxMembers}

InitWidget ==
  /\ now = 0
  /\ cache = [p \in Platforms |-> <<>>]
  /\ reqs = [r \in Reqs |-> NewRequest]
  /\ log = <<>>
  /\ \/ \E h \in 0..MaxMembers, t \in 0..(MaxMembers - 1), s \in Statuses,
            run \in {0, MEMBER_LIMIT - 2, MEMBER_LIMIT - 1, MEMBER_LIMIT} :
          \E ms \in LongMemberLists(h, run, s, t) :
            call = [fn |-> "processWidgetData", stage |-> "widget",
                    widget |-> [members |-> ms, channels |-> <<>>],
                    data |-> <<>>]
     \/ \E ms \in VoiceMemberLists, cs \in ChannelLists :
          call = [fn |-> "processWidgetData", stage |-> "widget",
                  widget |-> [members |-> ms, channels |-> cs],
                  data |-> <<>>]

ProcessWidget ==
  /\ call.fn = "processWidgetData" /\ call.stage = "widget"
  /\ call' = [call EXCEPT !.stage = "processed",
                          !.data = processWidgetData(call.widget)]
  /\ UNCHANGED <<now, cache, reqs, log>>

NextWidget == ProcessWidget

SpecWidget == InitWidget /\ [][NextWidget]_vars

(***************************************************************************)
(* C34                                                                     *)
(***************************************************************************)
WidgetProcessed == call.fn = "processWidgetData" /\ call.stage = "processed"

\* a is shown before b: online before idle before dnd
Outranks(a, b) ==
  \/ a = "online" /\ b \in {"idle", "dnd"}
  \/ a = "idle" /\ b = "dnd"

\* C34: the member list of the Discord adapter is sorted by status priority
\* and capped: at most 20 members, no idle or dnd member before an online
\* one and no dnd member before an idle one, members of equal status in
\* upstream order, and a member is left out only if 20 members of equal or
\* higher priority are kept.
C34_MembersSortedAndCapped ==
  WidgetProcessed =>
    LET out == call.data.members
        up == call.widget.members
    IN /\ Len(out) <= 20
       /\ \A i \in DOMAIN out :
            \E j \in DOMAIN up : up[j].id = out[i].id /\ up[j].status = out[i].status
       /\ \A i, j \in DOMAIN out :
            i < j => /\ ~Outranks(out[j].status, out[i].status)
                     /\ out[i].status = out[j].status => out[i].id < out[j].id
       /\ \A j \in DOMAIN up :
            (\A i \in DOMAIN out : out[i].id /= up[j].id) =>
              /\ Len(out) = 20
              /\ \A i \in DOMAIN out : ~Outranks(up[j].status, out[i].status)

\* 23 members, the first two dnd and idle, the last online: the online one
\* is kept, ahead of the idle one, and the dnd one is left out
C34_Witness ==
  /\ WidgetProcessed
  /\ Len(call.widget.members) = 23
  /\ call.widget.members[1].status = "dnd"
  /\ call.widget.members[2].status = "idle"
  /\ call.widget.members[3].status = "online"
  /\ call.widget.members[23].status = "online"
  /\ Len(call.data.members) = 20
  /\ \E i, j \in DOMAIN call.data.members :
       /\ call.data.members[i].id = 23
       /\ call.data.members[j].id = 2
       /\ i < j
  /\ \A i \in DOMAIN call.data.members : call.data.members[i].id /= 1

(***************************************************************************)
(* C35                                                                     *)
(***************************************************************************)
RECURSIVE SumCounts(_)
SumCounts(chs) ==
  IF chs = <<>> THEN 0 ELSE chs[1].memberCount + SumCounts(Tail(chs))

\* C35: each voice channel's memberCount is the number of upstream members
\* whose channel_id is that channel's id, the channels are in order of
\* non-increasing memberCount, stats.voiceChannelCount is the number of
\* upstream channels and (the channel ids being distinct) the memberCounts
\* add up to at most stats.membersInVoice.
C35_VoiceChannelTally ==
  WidgetProcessed =>
    LET chs == call.data.voiceChannels
        up == call.widget
    IN /\ Len(chs) = Len(up.channels)
       /\ \A c \in DOMAIN up.channels :
            \E i \in DOMAIN chs : chs[i].id = up.channels[c]
       /\ \A i \in DOMAIN chs :
            chs[i].memberCount =
              Cardinality({j \in DOMAIN up.members :
                             up.members[j].channel_id = chs[i].id})
       /\ \A i, j \in DOMAIN chs :
            i < j => chs[i].memberCount >= chs[j].memberCount
       /\ call.data.stats.voiceChannelCount = Len(up.channels)
       /\ SumCounts(chs) <= call.data.stats.membersInVoice

\* three members in c2, c2 and an unlisted channel: c2 comes first with 2,
\* c1 has nobody, and three members are in voice
C35_Witness ==
  /\ WidgetProcessed
  /\ call.widget.channels = <<"c1", "c2">>
  /\ Len(call.widget.members) = 3
  /\ call.widget.members[1].channel_id = "c2"
  /\ call.widget.members[2].channel_id = "c9"
  /\ call.widget.members[3].channel_id = "c2"
  /\ call.data.voiceChannels =
       << [id |-> "c2", memberCount |-> 2], [id |-> "c1", memberCount |-> 0] >>
  /\ call.data.stats.membersInVoice = 3

(***************************************************************************)
(* C36                                                                     *)
(***************************************************************************)
\* r was answered from the cache
ServedFromCache(r) == Responded(r) /\ reqs[r].resp.cached = "true"

\* the entry r read at its arrival was older than the TTL or as old
FoundStale(r) ==
  \E e \in reqs[r].found :
    reqs[r].now - e.timestamp >= CACHE_TTL(reqs[r].platform)

\* C36: served data is never older than the TTL: the payload of a response
\* with cached true was obtained by upstream calls issued less than the TTL
\* before the arrival of the request it answers (the calls of the request
\* that fetched it were issued at or after that request's arrival); an entry
\* older than the TTL is never served, whatever the refresh attempt does.
C36_ServedWithinTtl ==
  \A h \in Reqs :
    /\ ServedFromCache(h) =>
         LET f == reqs[h].resp.payload.snap
         IN /\ f \in Reqs \ {h}
            /\ Pos("done", f) > 0
            /\ Pos("arrive", h) > Pos("done", f)
            /\ SameKey(f, h)
            /\ reqs[f].now <= reqs[h].now
            /\ reqs[h].now - reqs[f].now < CACHE_TTL(reqs[h].platform)
    /\ Responded(h) /\ FoundStale(h) => ~ServedFromCache(h)

\* a TikTok payload served three clock steps after the request that fetched
\* it arrived
C36_Witness ==
  \E h \in Reqs :
    /\ ServedFromCache(h)
    /\ reqs[h].platform = "tiktok"
    /\ reqs[h].resp.payload.snap \in Reqs
    /\ reqs[h].now - reqs[reqs[h].resp.payload.snap].now = 3 * TickMs

(***************************************************************************)
(* C37                                                                     *)
(***************************************************************************)
\* one well-formed and one malformed request for each handler
FrameQueries(p) ==
  IF p = "youtube"
  THEN {Query(Str(ChannelA), Null), Query(Str(ChannelShort), Null)}
  ELSE {Query(Str(Al), Null), Query(Null, Null)}

NextFrame ==
  \/ \E r \in Reqs, p \in Platforms :
       \E q \in FrameQueries(p) : Arrive(r, p, q)
  \/ \E r \in Reqs :
       /\ reqs[r].pc = "fetching"
       /\ \E up \in Scenarios(reqs[r].platform) : Complete(r, up)
  \/ Tick

\* requests, well-formed or not, while the clock advances
SpecFrame == Init /\ [][NextFrame]_vars

\* C37: a request that ends in an error response leaves the cache as it
\* was: the 400 of every handler, the 404 of the Reddit and GitHub org
\* handlers, the 500 of the YouTube and Substack handlers and the 503 of the
\* Discord handler create, replace and remove no entry; a stale entry of the
\* key stays, with its timestamp.
C37_ErrorsLeaveCache ==
  [][\A r \in Reqs :
       Answering(r) /\ reqs'[r].resp.status >= 400 => cache' = cache]_vars

\* a Substack entry went stale, the refresh was answered 500, and the entry
\* is still there with the payload and the timestamp of the first request
C37_Witness ==
  \E r1, r2 \in Reqs :
    /\ reqs[r1].platform = "substack"
    /\ Wrote(r1)
    /\ SameKey(r1, r2)
    /\ Responded(r2)
    /\ reqs[r2].now - reqs[r1].now >= CACHE_TTL("substack")
    /\ reqs[r2].resp.status = 500
    /\ cache["substack"][reqs[r1].key] = EntryOf(r1)

(***************************************************************************)
(* C38                                                                     *)
(***************************************************************************)
MaxKeyLen == 2     \* characters of a username drawn for the keyed handlers

KeyedPlatforms == {"tiktok", "instagram"}

\* usernames and identifier parameters that differ in case, in hyphens and
\* in empty pieces
KeyQueries ==
  {Query(Str(name), ids) :
     name \in Strings({"a", "A", "-"}, MaxKeyLen),
     ids \in {Null, Str(<<>>), Str(<<"b">>), Str(<<"-">>),
              Str(<<",", "b">>)}}

NextKeys ==
  \/ \E r \in Reqs, p \in KeyedPlatforms :
       \E q \in KeyQueries : Arrive(r, p, q)
  \/ \E r \in Reqs :
       /\ reqs[r].pc = "fetching"
       /\ \E up \in Scenarios(reqs[r].platform) : Complete(r, up)

\* requests to the TikTok and Instagram handlers that differ in username
\* or identifiers
SpecKeys == Init /\ [][NextKeys]_vars

\* the username as the claim compares it
KeyedName(r) ==
  IF reqs[r].platform = "instagram"
  THEN ToLowerCase(reqs[r].query.id.val)
  ELSE reqs[r].query.id.val

\* C38: a request of the TikTok or Instagram handler is served from the
\* entry another request stored only if both have the same username (up to
\* case for Instagram) and the same list of item identifiers.
C38_KeysSeparateRequests ==
  \A r1, r2 \in Reqs :
    Wrote(r1) /\ ServedFromCache(r2) /\ SameKey(r1, r2)
      => /\ KeyedName(r1) = KeyedName(r2)
         /\ ParseIds(reqs[r1].query.ids) = ParseIds(reqs[r2].query.ids)

(***************************************************************************)
(* Client components (C39, C40)                                            *)
(*                                                                         *)
(* One mounted activity component: its React state, the localStorage entry *)
(* under its key, the card around it, and the fetches it has in flight.    *)
(* Every component follows GitHubActivity; the Discord component           *)
(* (TwitterActivity.tsx) differs in its answer to a non-OK response.       *)
(***************************************************************************)
MaxClicks == 4     \* user events on one mounted component

ComponentKinds == {"activity", "discord"}

\* what localStorage holds under the component's key when it mounts
StoredEntries == {"none", "fresh", "expired", "garbage"}

\* how a fetch to the handler ends, as the component sees it
FetchOutcomes ==
  {"ok", "okNoStore", "okBadJson", "neterr", "notOk", "widgetDisabled"}

\* a network error or a non-OK response
FetchFailed(outcome) == outcome \in {"neterr", "notOk", "widgetDisabled"}

NewComponent(kind, stored) ==
  [fn |-> "component", kind |-> kind, pc |-> "initial",
   data |-> "none", loading |-> FALSE, error |-> FALSE,
   prefetched |-> FALSE, storage |-> stored, expanded |-> FALSE,
   inflight |-> {}, started |-> 0, auto |-> 0, retries |-> 0,
   clicks |-> 0, last |-> "none"]

\* the effect that loads from localStorage on mount
loadFromStorage(c) ==
  IF c.storage = "fresh" THEN [c EXCEPT !.data = "stored"] ELSE c

\* which of its four returns the component renders
Rendered(c) ==
  IF c.loading /\ c.data = "none" THEN "skeleton"
  ELSE IF c.error /\ c.data = "none" THEN "error"
  ELSE IF c.data = "none" THEN "nothing"
  ELSE "content"

\* fetchActivity up to its await: the callback holds the data of the render
\* it was created in
fetchActivity(c, origin) ==
  [c EXCEPT !.loading = TRUE, !.error = FALSE,
            !.inflight = @ \cup {[id |-> c.started + 1, seen |-> c.data,
                                  origin |-> origin]},
            !.started = @ + 1,
            !.auto = IF origin = "auto" THEN @ + 1 ELSE @,
            !.retries = IF origin = "retry" THEN @ + 1 ELSE @]

\* the catch block of fetchActivity
catch(c, f) == IF f.seen = "none" THEN [c EXCEPT !.error = TRUE] ELSE c

\* fetchActivity after its await, finally block included
settleFetch(c, f, outcome) ==
  LET tried ==
        IF outcome \in {"ok", "okNoStore"}
        THEN [c EXCEPT !.data = "fetched",
                       !.storage = IF outcome = "ok" THEN "fetched" ELSE @]
        ELSE IF c.kind = "discord" /\ outcome = "widgetDisabled"
        THEN [c EXCEPT !.data = "placeholder"]
        ELSE catch(c, f)
  IN [tried EXCEPT !.loading = FALSE, !.inflight = @ \ {f}]

\* handlePrefetch without its guard
handlePrefetchUnguarded(c) ==
  fetchActivity([c EXCEPT !.prefetched = TRUE], "auto")

\* handlePrefetch
handlePrefetch(c) ==
  IF c.prefetched THEN c
  ELSE fetchActivity([c EXCEPT !.prefetched = TRUE], "auto")

\* the MutationObserver callback for one record; prefetched is the value of
\* the render the effect subscribed in
observerCallback(c, attributeName) ==
  IF attributeName = "data-expanded" /\ c.expanded /\ ~c.prefetched
  THEN handlePrefetch(c)
  ELSE c

InitClient ==
  /\ now = 0
  /\ cache = [p \in Platforms |-> <<>>]
  /\ reqs = [r \in Reqs |-> NewRequest]
  /\ log = <<>>
  /\ \E kind \in ComponentKinds, stored \in StoredEntries :
       call = NewComponent(kind, stored)

ClientStep(c) ==
  /\ call' = c
  /\ UNCHANGED <<now, cache, reqs, log>>

\* the effects of the first render
Mount ==
  /\ call.fn = "component" /\ call.pc = "initial"
  /\ ClientStep([loadFromStorage(call) EXCEPT !.pc = "mounted",
                                              !.last = "mount"])

UserEvent ==
  /\ call.fn = "component" /\ call.pc = "mounted"
  /\ call.clicks < MaxClicks

\* onMouseEnter and onTouchStart of the rendered content
Hover ==
  /\ UserEvent /\ Rendered(call) = "content"
  /\ ClientStep([handlePrefetch(call) EXCEPT !.clicks = @ + 1,
                                             !.last = "hover"])

Touch ==
  /\ UserEvent /\ Rendered(call) = "content"
  /\ ClientStep([handlePrefetch(call) EXCEPT !.clicks = @ + 1,
                                             !.last = "touch"])

\* the card around the component (ExpandableCard, not among the sources)
\* changes one attribute in answer to a click
ToggleCard(c, attributeName) ==
  IF attributeName = "data-expanded" THEN [c EXCEPT !.expanded = ~@] ELSE c

\* the observer is called with the record of that change
CardMutation ==
  /\ UserEvent
  /\ \E attributeName \in {"data-expanded", "class"} :
       ClientStep([observerCallback(ToggleCard(call, attributeName),
                                    attributeName)
                     EXCEPT !.clicks = @ + 1, !.last = "card"])

\* onClick of the Retry button
Retry ==
  /\ UserEvent /\ Rendered(call) = "error"
  /\ ClientStep([fetchActivity(call, "retry") EXCEPT !.clicks = @ + 1,
                                                      !.last = "retry"])

\* a fetch in flight ends
SettleFetch ==
  /\ call.fn = "component"
  /\ \E f \in call.inflight, outcome \in FetchOutcomes :
       ClientStep([settleFetch(call, f, outcome) EXCEPT !.last = outcome])

NextClient ==
  \/ Mount
  \/ Hover
  \/ Touch
  \/ CardMutation
  \/ Retry
  \/ SettleFetch

SpecClient == InitClient /\ [][NextClient]_vars

(***************************************************************************)
(* C39                                                                     *)
(***************************************************************************)
\* a step in which a fetch of the component ends
FetchEnds == call.fn = "component" /\ call'.inflight /= call.inflight
               /\ call'.started = call.started

\* C39: a failed fetch (network error or non-OK response) leaves the
\* displayed data as it was, sets the error state only when nothing is
\* displayed, localStorage is written only after a successful response, and
\* the fetch ends with loading reset to false.
C39_FailedFetchKeepsData ==
  [][FetchEnds =>
       /\ FetchFailed(call'.last) /\ call.data /= "none"
            => call'.data = call.data
       /\ call'.error /\ ~call.error => call.data = "none"
       /\ call'.storage /= call.storage => call'.last = "ok"
       /\ ~call'.loading]_vars

====
